---- MODULE Spec2Model ----
(***************************************************************************)
(* Streaming drivers of zstd-rs: zio::Writer and zio::Reader around an     *)
(* Operation (Encoder, Decoder, NoOp).                                     *)
(*                                                                         *)
(* A byte is a natural number.  Payload bytes are 1, 2, 3, ... so that a   *)
(* dropped, duplicated or reordered byte is visible.  The native engine is *)
(* a step function on (input window, output window) with internal state.   *)
(***************************************************************************)
EXTENDS Naturals, Sequences, FiniteSets, TLC

\* ---------------------------------------------------------------- bounds
\* Total number of payload bytes a caller pushes into a Writer.
MaxIn == 2
\* Largest buf handed to one Writer::write call.
MaxChunk == 2
\* Capacity of the Writer's staging buffer (Vec::with_capacity(32 * 1024)).
BufCap == 2
\* Bytes the engine can hold internally before it must emit.
EngCap == 3
\* Number of write_skippable_frame calls of one run.
MaxSkips == 1
\* Longest skippable-frame content.
MaxSkipLen == 0
\* Most frames in a source read by a Reader.
MaxFrames == 2
\* Longest payload of one frame of such a source.
MaxPay == 2
\* Largest buf handed to one Reader::read call.
MaxDst == 2

\* ------------------------------------------------------- wire constants
\* First byte of a regular frame (ZSTD_MAGICNUMBER).
MAGICNUMBER == 100
\* First byte of a skippable frame (ZSTD_MAGIC_SKIPPABLE_START).
MAGIC_SKIPPABLE_START == 80
\* Last byte of a regular frame: the block with the last-block bit.
LASTBLOCK == 101
\* A stored payload byte b travels as b + STORED.
STORED == 10
\* A byte that opens no frame (the 0 pushed after a frame in the tests).
GARBAGE == 0

\* --------------------------------------------------------------- helpers
Min(a, b) == IF a < b THEN a ELSE b

Take(s, n) == SubSeq(s, 1, n)

Drop(s, n) == SubSeq(s, n + 1, Len(s))

\* The payload bytes number a+1 .. a+k, in order.
Payload(a, k) == [i \in 1..k |-> a + i]

\* Engine's encoding of a run of payload bytes.
Stored(s) == [i \in 1..Len(s) |-> s[i] + STORED]

\* One complete regular frame holding payload s.
Frame(s) == <<MAGICNUMBER>> \o Stored(s) \o <<LASTBLOCK>>

\* One skippable frame: magic, content size, content.
SkippableFrame(c) == <<MAGIC_SKIPPABLE_START, Len(c)>> \o c

\* io::Result values.
Ok(n) == [tag |-> "Ok", n |-> n, err |-> "none"]

Err(e) == [tag |-> "Err", n |-> 0, err |-> e]

NoRet == [tag |-> "none", n |-> 0, err |-> "none"]

\* ------------------------------------------------------------ operations
\* State of the native context: stage of the current frame and the bytes it
\* holds that have not been written to an output window yet.
FreshEngine == [stage |-> "init", pend |-> <<>>]

\* Result of one step: new state, input consumed, output produced, hint.
Step(e, r, o, h) ==
    [eng |-> e, read |-> r, out |-> o, hint |-> h, err |-> "none"]

\* A step the operation refuses: map_error_code / io::Error of kind k.
StepErr(e, k) == [eng |-> e, read |-> 0, out |-> <<>>, hint |-> 0, err |-> k]

\* A slip: the input cursor is moved to the end of the input.
NoOpRunAll(e, inp, cap) ==
    {Step(e, Len(inp), Take(inp, Min(Len(inp), cap)), 0)}

\* NoOp::run: copies min(remaining input, remaining output), returns 0.
NoOpRun(e, inp, cap) ==
    LET len == Min(Len(inp), cap)
    IN  {Step(e, len, Take(inp, len), 0)}

\* Operation::flush default: nothing, Ok(0).
DefaultFlush(e, cap) == {Step(e, 0, <<>>, 0)}

\* Operation::finish default: nothing, Ok(0).
DefaultFinish(e, cap, finished_frame) == {Step(e, 0, <<>>, 0)}

\* Operation::reinit default.
DefaultReinit(e) == e

\* ZSTD_compressStream: takes c input bytes into the context (opening the
\* frame with its header at the first one) and emits m bytes; it reads or
\* writes at least one byte when given input; the hint it returns is the
\* next input size, never 0.  After an unfinished end directive only the
\* rest of the frame is flushed, or the call is refused.
EncoderRun(e, inp, cap) ==
    IF e.stage = "ending"
    THEN LET m == Min(Len(e.pend), cap)
             rest == Drop(e.pend, m)
         IN  { StepErr(e, "Other"),
               Step([stage |-> IF rest = <<>> THEN "init" ELSE "ending",
                     pend |-> rest], 0, Take(e.pend, m), 1) }
    ELSE LET open == IF e.stage = "init" THEN <<MAGICNUMBER>> ELSE e.pend
             room == IF EngCap > Len(open) THEN EngCap - Len(open) ELSE 0
         IN  { Step(IF c = 0 /\ e.stage = "init" THEN e
                    ELSE [stage |-> "open",
                          pend |-> Drop(open \o Stored(Take(inp, c)), m)],
                    c,
                    IF c = 0 /\ e.stage = "init" THEN <<>>
                    ELSE Take(open \o Stored(Take(inp, c)), m),
                    1) :
               <<c, m>> \in
                 { p \in (0..Min(Len(inp), room)) \X (0..cap) :
                     /\ p[2] <= (IF p[1] = 0 /\ e.stage = "init" THEN 0
                                 ELSE Len(open) + p[1])
                     /\ (Len(inp) = 0 \/ p[1] + p[2] > 0) } }

\* ZSTD_flushStream: emits as much of the held bytes as fits, returns what
\* is left.
EncoderFlush(e, cap) ==
    LET m == Min(Len(e.pend), cap)
        rest == Drop(e.pend, m)
    IN  { Step([stage |-> IF e.stage = "ending" /\ rest = <<>> THEN "init"
                          ELSE e.stage,
                pend |-> rest], 0, Take(e.pend, m), Len(rest)) }

\* ZSTD_endStream: closes the frame (an empty frame when none is open),
\* emits as much as fits, returns what is left; 0 means frame completed.
EncoderFinish(e, cap, finished_frame) ==
    LET all == CASE e.stage = "init" -> <<MAGICNUMBER, LASTBLOCK>>
                 [] e.stage = "open" -> e.pend \o <<LASTBLOCK>>
                 [] OTHER -> e.pend
        m == Min(Len(all), cap)
        rest == Drop(all, m)
    IN  { Step([stage |-> IF rest = <<>> THEN "init" ELSE "ending",
                pend |-> rest], 0, Take(all, m), Len(rest)) }

\* ZSTD_CCtx_reset(SessionOnly): drops the frame in progress.
EncoderReinit(e) == FreshEngine

\* Whether byte b is a stored payload byte.
IsStored(b) == b > STORED /\ b < MAGIC_SKIPPABLE_START

\* The payload bytes held by a run of frame bytes.
Unstored(s) ==
    LET body == SelectSeq(s, IsStored)
    IN  [i \in 1..Len(body) |-> body[i] - STORED]

\* Whether the first c bytes of inp end the frame.
EndsFrame(inp, c) == c > 0 /\ inp[c] = LASTBLOCK

\* Lengths of the prefixes of inp a decoding context in stage st can take:
\* a header first when no frame is open, then stored bytes, and nothing
\* past the byte that ends the frame.
Takeable(st, inp) ==
    IF st = "flush" THEN {0}
    ELSE { c \in 0..Len(inp) :
             \A i \in 1..c :
                 IF st = "init" /\ i = 1 THEN inp[i] = MAGICNUMBER
                 ELSE IsStored(inp[i]) \/ (inp[i] = LASTBLOCK /\ i = c) }

\* ZSTD_decompressStream: takes c bytes of the current frame and never a
\* byte past its end, decodes them behind what it already holds and emits
\* as much as the output window takes.  It stops only when the window is
\* full or it can take no more input, and takes no input while it holds
\* more than the window.  It returns 0 exactly when the frame is entirely
\* decoded and emitted; a byte it cannot decode is an error.
DecoderRun(e, inp, cap) ==
    LET lens == Takeable(e.stage, inp)
        maxc == CHOOSE c \in lens : \A d \in lens : d <= c
        bad == maxc < Len(inp) /\ e.stage # "flush" /\ ~EndsFrame(inp, maxc)
    IN  { LET all == e.pend \o Unstored(Take(inp, c))
              m == Min(Len(all), cap)
              rest == Drop(all, m)
              ended == e.stage = "flush" \/ EndsFrame(inp, c)
          IN  Step([stage |-> CASE ended /\ rest = <<>> -> "init"
                                [] ended -> "flush"
                                [] c > 0 -> "open"
                                [] OTHER -> e.stage,
                    pend |-> rest],
                   c, Take(all, m), IF ended /\ rest = <<>> THEN 0 ELSE 1) :
          c \in { c \in lens :
                    /\ Len(e.pend) > cap => c = 0
                    /\ c = maxc
                       \/ Len(e.pend) + Len(Unstored(Take(inp, c))) >= cap
                    /\ ~(bad /\ c = maxc
                          /\ Len(e.pend) + Len(Unstored(Take(inp, c))) < cap) } }
        \cup (IF bad /\ Len(e.pend) <= cap THEN {StepErr(e, "Other")} ELSE {})

\* A slip: flush reports nothing left whatever the run wrote.
DecoderFlushOnce(e, cap) ==
    { IF s.err # "none" THEN s ELSE Step(s.eng, 0, s.out, 0) :
      s \in DecoderRun(e, <<>>, cap) }

\* Decoder::flush: one run without input; Ok(0) unless the output is full.
DecoderFlush(e, cap) ==
    { IF s.err # "none" THEN s
      ELSE Step(s.eng, 0, s.out, IF Len(s.out) < cap THEN 0 ELSE 1) :
      s \in DecoderRun(e, <<>>, cap) }

\* A slip: finish accepts the end of input anywhere.
DecoderFinishLenient(e, cap, finished_frame) == {Step(e, 0, <<>>, 0)}

\* A slip: finish finds every end of input inside a frame.
DecoderFinishStrict(e, cap, finished_frame) == {StepErr(e, "UnexpectedEof")}

\* Decoder::finish: Ok(0) between frames, UnexpectedEof inside one.
DecoderFinish(e, cap, finished_frame) ==
    IF finished_frame THEN {Step(e, 0, <<>>, 0)}
    ELSE {StepErr(e, "UnexpectedEof")}

\* ZSTD_DCtx_reset(SessionOnly): drops the frame in progress.
DecoderReinit(e) == FreshEngine

OpKinds == {"NoOp", "Encoder"}

\* Dispatch of the Operation trait on the concrete operation.
OpRun(k, e, inp, cap) ==
    CASE k = "NoOp" -> NoOpRun(e, inp, cap)
      [] k = "Encoder" -> EncoderRun(e, inp, cap)
      [] k = "Decoder" -> DecoderRun(e, inp, cap)

OpFlush(k, e, cap) ==
    CASE k = "NoOp" -> DefaultFlush(e, cap)
      [] k = "Encoder" -> EncoderFlush(e, cap)
      [] k = "Decoder" -> DecoderFlush(e, cap)

\* A slip: every operation ends as the trait's default does.
OpFinishAllDefault(k, e, cap, finished_frame) ==
    DefaultFinish(e, cap, finished_frame)

OpFinish(k, e, cap, finished_frame) ==
    CASE k = "NoOp" -> DefaultFinish(e, cap, finished_frame)
      [] k = "Encoder" -> EncoderFinish(e, cap, finished_frame)
      [] k = "Decoder" -> DecoderFinish(e, cap, finished_frame)

OpReinit(k, e) ==
    CASE k = "NoOp" -> DefaultReinit(e)
      [] k = "Encoder" -> EncoderReinit(e)
      [] k = "Decoder" -> DecoderReinit(e)

\* ---------------------------------------------------------- zio::Writer
VARIABLES
    opKind,          \* the Operation the driver wraps
    eng,             \* operation: state of its native context
    sink,            \* writer: bytes the underlying sink has accepted
    buffer,          \* staging buffer
    offset,          \* buffer[offset..] is pending
    finished,
    finished_frame,
    writing_frame,
    flush_finished,  \* local `finished` of Writer::flush
    wpc,             \* position of the running call, "idle" between calls
    wcall,           \* the public method running (or the last one run)
    wbuf,            \* its argument buf
    wret,            \* value the last call returned
    nIn,             \* payload bytes write has reported as written (Ok(n))
    opIn,            \* input bytes the operation has consumed
    produced,        \* every byte put into the staging buffer, in order
    nSkips,          \* write_skippable_frame calls made
    wg               \* history of the calls, read by the properties only

wvars == <<opKind, eng, sink, buffer, offset, finished, finished_frame,
           writing_frame, flush_finished, wpc, wcall, wbuf, wret, nIn, opIn,
           produced, nSkips, wg>>

\* zio::Reader and its source.  The fields finished and finished_frame bear
\* the same names in both drivers and are the variables declared above.
VARIABLES
    shape,           \* what the source holds: frames and what follows them
    source,          \* every byte of the underlying BufRead
    pos,             \* bytes consumed from the source
    avail,           \* bytes buffered by the source and not yet consumed
    single_frame,    \* self.single_frame
    rpc,             \* "idle", or "loop" inside Reader::read
    dstLen,          \* buf.len() of the running read
    delivered,       \* every byte returned to the caller so far
    rret,            \* what the last read returned
    rg               \* history of the reads, read by the properties only

rvars == <<shape, source, pos, avail, single_frame, rpc, dstLen, delivered,
           rret, rg>>

\* write::AutoFinishEncoder around an Encoder over the Writer.
VARIABLES
    auto             \* encoder, on_finish: its two Options; cb: the callback
                     \* it was built with; the rest is history: calls of
                     \* finish made by drop, calls of the callback, the
                     \* callback's argument, whether the drop panicked

\* read::Decoder::read_skippable_frame and skip_frame, over the reader
\* under the Reader.
VARIABLES
    skip             \* position of the call and its locals; start and
                     \* cause are history: where the source stood when the
                     \* call began, and why it failed

\* stream::Encoder of stream/encoder.rs, the encoder that holds the
\* compression context itself; its writer, buffer and offset are sink,
\* buffer and offset above.  In a run of stream::Decoder of
\* stream/decoder.rs the same variable holds that decoder's state.
VARIABLES
    old              \* state: its EncoderState; panic is history: the
                     \* message of the panic that ended a call, if any.
                     \* For the Decoder: state and hint are its
                     \* DecoderState, out is what the running read has
                     \* put into buf; ended is history: a step has
                     \* returned 0

vars == <<wvars, rvars, auto, skip, old>>

\* No stream::Encoder has been built.
NoOld == [state |-> "none", panic |-> "none"]

\* No read_skippable_frame running; none has run.
NoSkip ==
    [pc |-> "idle", dest |-> 0, start |-> 0, need |-> 0, bytes_read |-> 0,
     magic_buffer |-> <<>>, buffer |-> <<>>, body |-> <<>>,
     bytes_to_seek |-> 0, ret |-> NoRet, cause |-> "none"]

\* No AutoFinishEncoder in a run.
NoAuto ==
    [encoder |-> "None", on_finish |-> "None", cb |-> "none",
     finishes |-> 0, calls |-> 0, arg |-> NoRet, panicked |-> FALSE]

\* No Reader in a run of the Writer.
NoReader ==
    /\ shape = [lens |-> <<>>, tail |-> "none", keep |-> 0]
    /\ source = <<>>
    /\ pos = 0
    /\ avail = 0
    /\ single_frame = FALSE
    /\ rpc = "idle"
    /\ dstLen = 0
    /\ delivered = <<>>
    /\ rret = NoRet
    /\ rg = [lateCall |-> FALSE,   \* the operation or the source was used
                                    \* in an iteration begun with finished
             open |-> FALSE,       \* input was fed and the last run did not
                                    \* return 0
             ended |-> FALSE,      \* a run returned 0, no reinit since
             misfed |-> FALSE,     \* a run was fed while ended
             eofOpen |-> FALSE]    \* the last iteration met EOF while open

\* Errors the sink hands back other than Interrupted.
SinkErrs == {"WouldBlock", "Other"}

\* Most bytes a sink ever holds: one frame around the payload, the
\* skippable frames, and one more frame.
MaxSink == 2 + MaxIn + MaxSkips * (2 + MaxSkipLen) + 2

\* Writer::new
WriterInit ==
    /\ opKind \in OpKinds
    /\ eng = FreshEngine
    /\ sink = <<>>
    /\ buffer = <<>>
    /\ offset = 0
    /\ finished = FALSE
    /\ finished_frame = FALSE
    /\ writing_frame = FALSE
    /\ flush_finished = FALSE
    /\ wpc = "idle"
    /\ wcall = "none"
    /\ wbuf = <<>>
    /\ wret = NoRet
    /\ nIn = 0
    /\ opIn = 0
    /\ produced = <<>>
    /\ nSkips = 0
    /\ NoReader
    /\ wg = [phase |-> "writing",   \* see PhaseAfter
             finOk |-> FALSE,       \* finish returned Ok, no write since
             idem |-> FALSE,        \* the running call began with finOk
             resumed |-> FALSE,     \* the running call retries a WouldBlock
             opCalled |-> FALSE,    \* the running call invoked the operation
             sinkWrote |-> FALSE]   \* the running call wrote to the sink

\* The last call was method m and returned WouldBlock.
Blocked(m) == wpc = "idle" /\ wcall = m /\ wret = Err("WouldBlock")

\* The shape of the call sequence once method m is called after a sequence
\* of shape p: "writing" is writes only, "flushing" writes and flushes,
\* "finishing" writes and then finishes, "closing" writes and flushes and
\* then finishes and flushes, "mixed" anything else (a write after a
\* finish, a skippable frame).
PhaseAfter(p, m) ==
    CASE m = "write" -> IF p \in {"writing", "flushing"} THEN p ELSE "mixed"
      [] m = "flush" -> CASE p = "writing" -> "flushing"
                          [] p = "finishing" -> "closing"
                          [] OTHER -> p
      [] m = "finish" -> CASE p = "writing" -> "finishing"
                           [] p = "flushing" -> "closing"
                           [] OTHER -> p
      [] OTHER -> "mixed"

\* History at the start of a call of method m.
AtCall(m) ==
    [phase |-> PhaseAfter(wg.phase, m),
     finOk |-> wg.finOk /\ m \in {"finish", "flush"},
     idem |-> wg.finOk /\ m = "finish",
     resumed |-> Blocked(m),
     opCalled |-> FALSE,
     sinkWrote |-> FALSE]

\* The running call returns r to its caller; its locals die.
WReturn(r) ==
    /\ wpc' = "idle"
    /\ wret' = r
    /\ wbuf' = <<>>
    /\ flush_finished' = FALSE
    /\ wg' = [wg EXCEPT !.opCalled = FALSE, !.sinkWrote = FALSE,
                        !.finOk = IF wcall = "finish" THEN r.tag = "Ok" ELSE @]

\* The running call goes on, with history g.
WStay(g) ==
    /\ UNCHANGED <<wpc, wret, wbuf>>
    /\ wg' = g

\* The caller invokes Writer::write(buf), buf being the next k bytes it
\* has not yet been told were written.
CallWrite ==
    /\ wpc = "idle"
    /\ \E k \in 0..MaxChunk :
        /\ nIn + k <= MaxIn
        /\ wbuf' = Payload(nIn, k)
    /\ writing_frame' = TRUE
    /\ wpc' = "write"
    /\ wcall' = "write"
    /\ wret' = NoRet
    /\ wg' = AtCall("write")
    /\ UNCHANGED <<opKind, eng, sink, buffer, offset, finished,
                   finished_frame, flush_finished, nIn, opIn, produced,
                   nSkips>>
    /\ UNCHANGED <<rvars, auto, skip, old>>

\* The caller invokes Writer::flush.
CallFlush ==
    /\ wpc = "idle"
    /\ flush_finished' = finished
    /\ wpc' = "flush"
    /\ wcall' = "flush"
    /\ wbuf' = <<>>
    /\ wret' = NoRet
    /\ wg' = AtCall("flush")
    /\ UNCHANGED <<opKind, eng, sink, buffer, offset, finished,
                   finished_frame, writing_frame, nIn, opIn, produced,
                   nSkips>>
    /\ UNCHANGED <<rvars, auto, skip, old>>

\* The caller invokes Writer::finish.
CallFinish ==
    /\ wpc = "idle"
    /\ wpc' = "finish"
    /\ wcall' = "finish"
    /\ wbuf' = <<>>
    /\ wret' = NoRet
    /\ wg' = AtCall("finish")
    /\ UNCHANGED <<opKind, eng, sink, buffer, offset, finished,
                   finished_frame, writing_frame, flush_finished, nIn, opIn,
                   produced, nSkips>>
    /\ UNCHANGED <<rvars, auto, skip, old>>

\* The caller invokes Writer::write_skippable_frame(buf, variant); an open
\* frame is finished first.
CallSkippable ==
    /\ wpc = "idle"
    /\ nSkips < MaxSkips
    /\ nSkips' = nSkips + 1
    /\ \E l \in 0..MaxSkipLen : wbuf' = Payload(0, l)
    /\ wpc' = IF writing_frame THEN "finish" ELSE "skip_emit"
    /\ wcall' = "skip"
    /\ wret' = NoRet
    /\ wg' = AtCall("skip")
    /\ UNCHANGED <<opKind, eng, sink, buffer, offset, finished,
                   finished_frame, writing_frame, flush_finished, nIn, opIn,
                   produced>>
    /\ UNCHANGED <<rvars, auto, skip, old>>

\* Positions of a call that stand at self.write_from_offset().
DrainPcs == {"write", "flush", "finish", "skip_drain"}

\* A slip: a partial write taken for a complete one.
AdvanceToEnd(off, n) == Len(buffer)

\* Offset after the sink accepted n bytes of buffer[offset..].
Advance(off, n) == off + n

\* A slip: Interrupted is returned like any other error.
RetriedNever(e) == FALSE

\* Whether write_from_offset goes round its loop again after the sink's
\* write failed with e.
Retried(e) == e = "Interrupted"

\* A slip: a sink that takes nothing ends the drain as if it were done.
ZeroWriteOk == Ok(0)

\* What write_from_offset returns when the sink accepted 0 bytes.
ZeroWrite == Err("WriteZero")

\* One iteration of write_from_offset's loop: one sink.write call.
SinkWrite ==
    /\ wpc \in DrainPcs
    /\ offset < Len(buffer)
    /\ \/ \E n \in 1..(Len(buffer) - offset) :          \* Ok(n)
            /\ Len(sink) + n <= MaxSink
            /\ sink' = sink \o SubSeq(buffer, offset + 1, offset + n)
            /\ offset' = Advance(offset, n)
            /\ WStay([wg EXCEPT !.sinkWrote = TRUE])
            /\ UNCHANGED flush_finished
       \/ /\ WReturn(ZeroWrite)                          \* Ok(0)
          /\ UNCHANGED <<sink, offset>>
       \/ \E e \in SinkErrs \cup {"Interrupted"} :       \* Err(e)
            IF Retried(e)
            THEN /\ WStay(wg)
                 /\ UNCHANGED <<sink, offset, flush_finished>>
            ELSE /\ WReturn(Err(e))
                 /\ UNCHANGED <<sink, offset>>
    /\ UNCHANGED <<opKind, eng, buffer, finished, finished_frame,
                   writing_frame, wcall, nIn, opIn, produced, nSkips>>
    /\ UNCHANGED <<rvars, auto, skip, old>>

\* A slip: write returns after its first run, whatever that consumed.
WriteReturnsAlways(bytes_read, buf) == TRUE

\* A slip: write goes on until its buf is empty.
WriteReturnsOnEmpty(bytes_read, buf) == Len(buf) = 0

\* Whether Writer::write returns after a run that read bytes_read of buf.
WriteReturns(bytes_read, buf) == bytes_read > 0 \/ Len(buf) = 0

\* Writer::write, the loop body after the drain: reinit when the last run
\* ended a frame, one run into the cleared buffer, then return or loop.
WriteRun ==
    /\ wpc = "write"
    /\ offset = Len(buffer)
    /\ \E s \in OpRun(opKind,
                      IF finished_frame THEN OpReinit(opKind, eng) ELSE eng,
                      wbuf, BufCap) :
        /\ eng' = s.eng
        /\ buffer' = s.out
        /\ offset' = 0
        /\ produced' = produced \o s.out
        /\ opIn' = opIn + s.read
        /\ IF s.err # "none"
           THEN /\ finished_frame' = FALSE
                /\ nIn' = nIn
                /\ WReturn(Err(s.err))
           ELSE /\ finished_frame' = (s.hint = 0)
                /\ IF WriteReturns(s.read, wbuf)
                   THEN nIn' = nIn + s.read /\ WReturn(Ok(s.read))
                   ELSE /\ nIn' = nIn
                        /\ WStay([wg EXCEPT !.opCalled = TRUE])
                        /\ UNCHANGED flush_finished
    /\ UNCHANGED <<opKind, sink, finished, writing_frame, wcall, nSkips>>
    /\ UNCHANGED <<rvars, auto, skip, old>>

\* A slip: finish takes the first op.finish call for the last.
FinishedAfterAny(hint) == TRUE

\* self.finished after op.finish returned hint.
FinishedAfter(hint) == hint = 0

\* A slip: finish forgets `finished` when it returns.
FinishStepForgets ==
    /\ wpc = "finish"
    /\ offset = Len(buffer)
    /\ IF finished
       THEN /\ writing_frame' = FALSE
            /\ finished' = FALSE
            /\ IF wcall = "skip"
               THEN wpc' = "skip_emit"
                    /\ UNCHANGED <<wret, wbuf, wg, flush_finished>>
               ELSE WReturn(Ok(0))
            /\ UNCHANGED <<eng, buffer, offset, produced>>
       ELSE /\ \E s \in OpFinish(opKind, eng, BufCap, finished_frame) :
                /\ eng' = s.eng
                /\ buffer' = s.out
                /\ offset' = 0
                /\ produced' = produced \o s.out
                /\ IF s.err # "none"
                   THEN finished' = finished /\ WReturn(Err(s.err))
                   ELSE IF s.hint # 0 /\ s.out = <<>>
                   THEN finished' = finished /\ WReturn(Err("UnexpectedEof"))
                   ELSE /\ finished' = FinishedAfter(s.hint)
                        /\ WStay([wg EXCEPT !.opCalled = TRUE])
                        /\ UNCHANGED flush_finished
            /\ UNCHANGED writing_frame
    /\ UNCHANGED <<opKind, sink, finished_frame, wcall, nIn, opIn, nSkips>>
    /\ UNCHANGED <<rvars, auto, skip, old>>

\* Writer::finish, the loop body after the drain.
FinishStep ==
    /\ wpc = "finish"
    /\ offset = Len(buffer)
    /\ IF finished
       THEN /\ writing_frame' = FALSE
            /\ IF wcall = "skip"
               THEN wpc' = "skip_emit"
                    /\ UNCHANGED <<wret, wbuf, wg, flush_finished>>
               ELSE WReturn(Ok(0))
            /\ UNCHANGED <<eng, buffer, offset, produced, finished>>
       ELSE /\ \E s \in OpFinish(opKind, eng, BufCap, finished_frame) :
                /\ eng' = s.eng
                /\ buffer' = s.out
                /\ offset' = 0
                /\ produced' = produced \o s.out
                /\ IF s.err # "none"
                   THEN finished' = finished /\ WReturn(Err(s.err))
                   ELSE IF s.hint # 0 /\ s.out = <<>>
                   THEN finished' = finished /\ WReturn(Err("UnexpectedEof"))
                   ELSE /\ finished' = FinishedAfter(s.hint)
                        /\ WStay([wg EXCEPT !.opCalled = TRUE])
                        /\ UNCHANGED flush_finished
            /\ UNCHANGED writing_frame
    /\ UNCHANGED <<opKind, sink, finished_frame, wcall, nIn, opIn, nSkips>>
    /\ UNCHANGED <<rvars, auto, skip, old>>

\* A slip: flush takes the first op.flush call for the last.
FlushedAfterAny(hint) == TRUE

\* The local finished of flush after op.flush returned hint.
FlushedAfter(hint) == hint = 0

\* Writer::flush, the loop body after the drain, up to the break.
FlushStep ==
    /\ wpc = "flush"
    /\ offset = Len(buffer)
    /\ ~flush_finished
    /\ \E s \in OpFlush(opKind, eng, BufCap) :
        /\ eng' = s.eng
        /\ buffer' = s.out
        /\ offset' = 0
        /\ produced' = produced \o s.out
        /\ IF s.err # "none"
           THEN WReturn(Err(s.err))
           ELSE /\ flush_finished' = FlushedAfter(s.hint)
                /\ WStay([wg EXCEPT !.opCalled = TRUE])
    /\ UNCHANGED <<opKind, sink, finished, finished_frame, writing_frame,
                   wcall, nIn, opIn, nSkips>>
    /\ UNCHANGED <<rvars, auto, skip, old>>

\* Writer::flush after the break: self.writer.flush(), whose result is
\* the call's.
SinkFlush ==
    /\ wpc = "flush"
    /\ offset = Len(buffer)
    /\ flush_finished
    /\ \/ WReturn(Ok(0))
       \/ \E e \in SinkErrs : WReturn(Err(e))
    /\ UNCHANGED <<opKind, eng, sink, buffer, offset, finished,
                   finished_frame, writing_frame, wcall, nIn, opIn, produced,
                   nSkips>>
    /\ UNCHANGED <<rvars, auto, skip, old>>

\* CCtx::write_skippable_frame into OutBuffer::around(&mut self.buffer),
\* which starts at position 0 of the buffer; then offset = 0.
SkipEmit ==
    /\ wpc = "skip_emit"
    /\ IF Len(SkippableFrame(wbuf)) > BufCap
       THEN /\ WReturn(Err("Other"))
            /\ UNCHANGED <<buffer, offset, produced>>
       ELSE /\ buffer' = SkippableFrame(wbuf)
            /\ offset' = 0
            /\ produced' = produced \o SkippableFrame(wbuf)
            /\ wpc' = "skip_drain"
            /\ UNCHANGED <<wret, wbuf, wg, flush_finished>>
    /\ UNCHANGED <<opKind, eng, sink, finished, finished_frame,
                   writing_frame, wcall, nIn, opIn, nSkips>>
    /\ UNCHANGED <<rvars, auto, skip, old>>

\* write_skippable_frame returns once the frame is drained.
SkipDone ==
    /\ wpc = "skip_drain"
    /\ offset = Len(buffer)
    /\ WReturn(Ok(0))
    /\ UNCHANGED <<opKind, eng, sink, buffer, offset, finished,
                   finished_frame, writing_frame, wcall, nIn, opIn, produced,
                   nSkips>>
    /\ UNCHANGED <<rvars, auto, skip, old>>

WriterNext ==
    \/ CallWrite
    \/ CallFlush
    \/ CallFinish
    \/ CallSkippable
    \/ SinkWrite
    \/ WriteRun
    \/ FinishStep
    \/ FlushStep
    \/ SinkFlush
    \/ SkipEmit
    \/ SkipDone

\* A Writer used directly, without an AutoFinishEncoder.
BareWriterInit == WriterInit /\ auto = NoAuto /\ skip = NoSkip /\ old = NoOld

WriterSpec == BareWriterInit /\ [][WriterNext]_vars

\* ---------------------------------------------------------- zio::Reader
\* Sum of the first n payload lengths.
RECURSIVE SumLens(_, _)
SumLens(lens, n) == IF n = 0 THEN 0 ELSE SumLens(lens, n - 1) + lens[n]

\* The first n frames back to back; frame i holds the payload bytes that
\* follow those of frame i - 1.
RECURSIVE Frames(_, _)
Frames(lens, n) ==
    IF n = 0 THEN <<>>
    ELSE Frames(lens, n - 1)
         \o Frame(Payload(SumLens(lens, n - 1), lens[n]))

\* The bytes of a source of shape sh: complete frames, then nothing, or a
\* byte that opens no frame, or the last frame cut to its first keep bytes.
SourceOf(sh) ==
    LET n == Len(sh.lens)
    IN  CASE sh.tail = "none" -> Frames(sh.lens, n)
          [] sh.tail = "byte" -> Frames(sh.lens, n) \o <<GARBAGE>>
          [] sh.tail = "cut" ->
                Frames(sh.lens, n - 1)
                \o Take(Frame(Payload(SumLens(sh.lens, n - 1), sh.lens[n])),
                        sh.keep)

Shapes ==
    { sh \in [lens : UNION { [1..n -> 0..MaxPay] : n \in 1..MaxFrames },
              tail : {"none", "byte", "cut"},
              keep : 0..(MaxPay + 1)] :
        IF sh.tail = "cut"
        THEN sh.keep >= 1 /\ sh.keep <= sh.lens[Len(sh.lens)] + 1
        ELSE sh.keep = 0 }

\* No Writer in a run of the Reader.
NoWriter ==
    /\ sink = <<>>
    /\ buffer = <<>>
    /\ offset = 0
    /\ writing_frame = FALSE
    /\ flush_finished = FALSE
    /\ wpc = "idle"
    /\ wcall = "none"
    /\ wbuf = <<>>
    /\ wret = NoRet
    /\ nIn = 0
    /\ opIn = 0
    /\ produced = <<>>
    /\ nSkips = 0
    /\ wg = [phase |-> "writing", finOk |-> FALSE, idem |-> FALSE,
             resumed |-> FALSE, opCalled |-> FALSE, sinkWrote |-> FALSE]

\* Reader::new over a source, then set_single_frame or not.
ReaderInit ==
    /\ opKind = "Decoder"
    /\ eng = FreshEngine
    /\ finished = FALSE
    /\ finished_frame = FALSE
    /\ single_frame \in BOOLEAN
    /\ shape \in Shapes
    /\ source = SourceOf(shape)
    /\ pos = 0
    /\ avail = 0
    /\ rpc = "idle"
    /\ dstLen = 0
    /\ delivered = <<>>
    /\ rret = NoRet
    /\ rg = [lateCall |-> FALSE, open |-> FALSE, ended |-> FALSE,
             misfed |-> FALSE, eofOpen |-> FALSE]
    /\ NoWriter

\* Errors the source's fill_buf hands back.
SourceErrs == {"WouldBlock", "Interrupted"}

\* The running read returns r to its caller.
RReturn(r) ==
    /\ rpc' = "idle"
    /\ rret' = r

\* The caller invokes Reader::read(buf) with a buf of n bytes.
CallRead ==
    /\ rpc = "idle"
    /\ \E n \in 1..MaxDst : dstLen' = n
    /\ IF finished
       THEN RReturn(Ok(0))
       ELSE rpc' = "loop" /\ rret' = NoRet
    /\ rg' = [rg EXCEPT !.eofOpen = FALSE]
    /\ UNCHANGED <<opKind, eng, finished, finished_frame, shape, source, pos,
                   avail, single_frame, delivered>>
    /\ UNCHANGED <<sink, buffer, offset, writing_frame, flush_finished, wpc,
                   wcall, wbuf, wret, nIn, opIn, produced, nSkips, wg,
                   auto, skip, old>>

\* One iteration of read's loop in which fill_buf fails: the error is
\* returned as it is.
ReadFillErr ==
    /\ rpc = "loop"
    /\ avail = 0
    /\ \E e \in SourceErrs : RReturn(Err(e))
    /\ rg' = [rg EXCEPT !.eofOpen = FALSE]
    /\ UNCHANGED <<opKind, eng, finished, finished_frame, shape, source, pos,
                   avail, single_frame, dstLen, delivered>>
    /\ UNCHANGED <<sink, buffer, offset, writing_frame, flush_finished, wpc,
                   wcall, wbuf, wret, nIn, opIn, produced, nSkips, wg,
                   auto, skip, old>>

\* self.finished after a run returned hint.
FinishedAfterRun(fin, hint) == fin \/ (hint = 0 /\ single_frame)

\* A slip: read goes on until buf is full.
ReadReturnsWhenFull(bytes_written) == bytes_written >= dstLen

\* The end of an iteration of read's loop: the call returns when the
\* iteration wrote bytes into buf.  Every iteration writes from the start
\* of buf, so bytes of an iteration that does not return are overwritten.
ReadReturns(bytes_written) == bytes_written > 0

\* A slip: a run that failed is taken for the end of the stream.
TryAsEof(err) == Ok(0)

\* The ? after operation.run: the read returns the error as it is.
Try(err) == Err(err)

\* A slip: the source is never told what the operation took.
ConsumeNothing(p, bytes_read) == p

\* self.reader.consume(bytes_read): the source's position after it.
Consume(p, bytes_read) == p + bytes_read

\* One iteration of read's loop in which fill_buf hands a non-empty window
\* (what the source has buffered, or a fresh non-empty part of the rest):
\* reinit after a frame end, one run, consume, return when bytes came out.
ReadRun ==
    /\ rpc = "loop"
    /\ \E w \in (IF avail > 0 THEN {avail} ELSE 1..(Len(source) - pos)) :
       \E s \in OpRun(opKind,
                       IF finished_frame THEN OpReinit(opKind, eng) ELSE eng,
                       SubSeq(source, pos + 1, pos + w), dstLen) :
        /\ eng' = s.eng
        /\ opIn' = opIn + s.read
        /\ IF s.err # "none"
           THEN /\ RReturn(Try(s.err))
                /\ finished_frame' = FALSE
                /\ finished' = finished
                /\ pos' = pos
                /\ avail' = w
                /\ delivered' = delivered
                /\ rg' = [rg EXCEPT
                            !.lateCall = @ \/ finished,
                            !.misfed = @ \/ (rg.ended /\ ~finished_frame),
                            !.ended = @ /\ ~finished_frame,
                            !.eofOpen = FALSE]
           ELSE /\ finished_frame' = (s.hint = 0)
                /\ finished' = FinishedAfterRun(finished, s.hint)
                /\ pos' = Consume(pos, s.read)
                /\ avail' = w - s.read
                /\ IF ReadReturns(Len(s.out))
                   THEN /\ delivered' = delivered \o s.out
                        /\ RReturn(Ok(Len(s.out)))
                   ELSE UNCHANGED <<delivered, rpc, rret>>
                /\ rg' = [rg EXCEPT
                            !.lateCall = @ \/ finished,
                            !.misfed = @ \/ (rg.ended /\ ~finished_frame),
                            !.ended = (s.hint = 0),
                            !.open = (s.hint # 0),
                            !.eofOpen = FALSE]
    /\ UNCHANGED <<opKind, shape, source, single_frame, dstLen>>
    /\ UNCHANGED <<sink, buffer, offset, writing_frame, flush_finished, wpc,
                   wcall, wbuf, wret, nIn, produced, nSkips, wg,
                   auto, skip, old>>

\* A slip: the first op.finish at EOF is taken for the last.
FinishedAfterFinishAny(fin, hint) == TRUE

\* self.finished after an op.finish at EOF returned hint.
FinishedAfterFinish(fin, hint) == fin \/ hint = 0

\* One iteration of read's loop in which fill_buf hands an empty window,
\* the source being at EOF: one op.finish.
ReadEof ==
    /\ rpc = "loop"
    /\ avail = 0
    /\ pos = Len(source)
    /\ \E s \in OpFinish(opKind, eng, dstLen, finished_frame) :
        /\ eng' = s.eng
        /\ IF s.err # "none"
           THEN /\ RReturn(Err(s.err))
                /\ UNCHANGED <<finished, delivered>>
           ELSE /\ finished' = FinishedAfterFinish(finished, s.hint)
                /\ IF (s.hint = 0 /\ s.out = <<>>) \/ ReadReturns(Len(s.out))
                   THEN /\ delivered' = delivered \o s.out
                        /\ RReturn(Ok(Len(s.out)))
                   ELSE UNCHANGED <<delivered, rpc, rret>>
    /\ rg' = [rg EXCEPT !.lateCall = @ \/ finished, !.eofOpen = rg.open]
    /\ UNCHANGED <<opKind, finished_frame, shape, source, pos, avail,
                   single_frame, dstLen>>
    /\ UNCHANGED <<sink, buffer, offset, writing_frame, flush_finished, wpc,
                   wcall, wbuf, wret, nIn, opIn, produced, nSkips, wg,
                   auto, skip, old>>

ReaderNext ==
    \/ CallRead
    \/ ReadFillErr
    \/ ReadRun
    \/ ReadEof

BareReaderInit == ReaderInit /\ auto = NoAuto /\ skip = NoSkip /\ old = NoOld

ReaderSpec == BareReaderInit /\ [][ReaderNext]_vars

\* --------------------------------------------- Writer, resumed after WouldBlock
\* A caller that writes, flushes and finishes, never writes once it has
\* called finish, and answers a WouldBlock from flush or finish by calling
\* the same method again.
Resumes(m) ==
    /\ \A b \in {"flush", "finish"} : Blocked(b) => m = b
    /\ PhaseAfter(wg.phase, m) # "mixed"

LiveWrite == Resumes("write") /\ CallWrite

LiveFlush == Resumes("flush") /\ CallFlush

LiveFinish == Resumes("finish") /\ CallFinish

\* The retry of a flush or finish that returned WouldBlock.
LiveRetry ==
    \/ Blocked("flush") /\ CallFlush
    \/ Blocked("finish") /\ CallFinish

\* A sink whose only failures are Interrupted and WouldBlock.
LiveSinkWrite == SinkWrite /\ (wpc' = "idle" => wret' = Err("WouldBlock"))

LiveSinkFlush == SinkFlush /\ wret' \in {Ok(0), Err("WouldBlock")}

\* The sink takes at least one byte.
SinkAccepts == SinkWrite /\ Len(sink') > Len(sink)

\* The sink's flush succeeds.
SinkFlushes == SinkFlush /\ wret' = Ok(0)

WriterLiveNext ==
    \/ LiveWrite
    \/ LiveFlush
    \/ LiveFinish
    \/ LiveSinkWrite
    \/ LiveSinkFlush
    \/ WriteRun
    \/ FinishStep
    \/ FlushStep

\* The calls run to their next sink call by themselves; the sink, asked
\* again and again, eventually accepts; the caller keeps retrying.
WriterLiveSpec ==
    /\ BareWriterInit
    /\ [][WriterLiveNext]_vars
    /\ WF_vars(WriteRun)
    /\ WF_vars(FinishStep)
    /\ WF_vars(FlushStep)
    /\ WF_vars(LiveRetry)
    /\ SF_vars(SinkAccepts)
    /\ SF_vars(SinkFlushes)

\* ------------------------------------------- write::AutoFinishEncoder
\* Encoder::auto_finish and Encoder::on_finish: AutoFinishEncoder::new
\* around an Encoder, whose writer is a Writer over a raw Encoder.
AutoFinishInit ==
    /\ WriterInit
    /\ opKind = "Encoder"
    /\ \E f \in {"unwrap", "user"} :
          auto = [encoder |-> "Some", on_finish |-> "Some", cb |-> f,
                  finishes |-> 0, calls |-> 0, arg |-> NoRet,
                  panicked |-> FALSE]
    /\ skip = NoSkip /\ old = NoOld

\* Write for AutoFinishEncoder: write and flush go to the encoder.
AutoWrite == auto.encoder = "Some" /\ CallWrite

AutoFlush == auto.encoder = "Some" /\ CallFlush

\* Drop for AutoFinishEncoder, first half: the encoder is taken and
\* finish is called on it, which is Writer::finish.
AutoDrop ==
    /\ wpc = "idle"
    /\ auto.encoder = "Some"
    /\ auto' = [auto EXCEPT !.encoder = "None", !.finishes = @ + 1]
    /\ wpc' = "finish"
    /\ wcall' = "finish"
    /\ wbuf' = <<>>
    /\ wret' = NoRet
    /\ wg' = AtCall("finish")
    /\ UNCHANGED <<opKind, eng, sink, buffer, offset, finished,
                   finished_frame, writing_frame, flush_finished, nIn, opIn,
                   produced, nSkips>>
    /\ UNCHANGED <<rvars, skip, old>>

\* A slip: the callback of auto_finish drops the result.
UnwrapQuiet(result) == FALSE

\* Whether result.unwrap(), the callback of auto_finish, panics.
Unwrap(result) == result.tag = "Err"

\* Drop for AutoFinishEncoder, second half: finish has returned; the
\* callback is taken and called with the result.
OnFinish ==
    /\ wpc = "idle"
    /\ auto.encoder = "None"
    /\ auto.on_finish = "Some"
    /\ auto' = [auto EXCEPT !.on_finish = "None",
                             !.calls = @ + 1,
                             !.arg = wret,
                             !.panicked = (auto.cb = "unwrap" /\ Unwrap(wret))]
    /\ UNCHANGED <<wvars, rvars, skip, old>>

AutoFinishNext ==
    \/ AutoWrite
    \/ AutoFlush
    \/ AutoDrop
    \/ OnFinish
    \/ SinkWrite
    \/ WriteRun
    \/ FinishStep
    \/ FlushStep
    \/ SinkFlush

AutoFinishSpec == AutoFinishInit /\ [][AutoFinishNext]_vars

\* ------------------------------------------- zio::Writer over a Decoder
\* The compressed input of a Writer over a Decoder: complete frames, with
\* payloads up to one byte more than the staging buffer holds, the last
\* frame possibly cut to its first keep bytes.
WriterShapes ==
    { sh \in [lens : UNION { [1..n -> 0..(BufCap + 1)] : n \in 1..MaxFrames },
              tail : {"none", "cut"},
              keep : 0..(BufCap + 2)] :
        IF sh.tail = "cut"
        THEN sh.keep >= 1 /\ sh.keep <= sh.lens[Len(sh.lens)] + 1
        ELSE sh.keep = 0 }

\* Writer::new(&mut output, Decoder::new()); source holds the bytes the
\* caller is going to write.
DecoderWriterInit ==
    /\ opKind = "Decoder"
    /\ eng = FreshEngine
    /\ finished = FALSE
    /\ finished_frame = FALSE
    /\ shape \in WriterShapes
    /\ source = SourceOf(shape)
    /\ pos = 0
    /\ avail = 0
    /\ single_frame = FALSE
    /\ rpc = "idle"
    /\ dstLen = 0
    /\ delivered = <<>>
    /\ rret = NoRet
    /\ rg = [lateCall |-> FALSE, open |-> FALSE, ended |-> FALSE,
             misfed |-> FALSE, eofOpen |-> FALSE]
    /\ NoWriter
    /\ auto = NoAuto /\ skip = NoSkip /\ old = NoOld

\* The caller invokes Writer::write(buf), buf being the next k bytes of
\* the compressed input it has not yet been told were written: a chunk,
\* or all the rest as write_all does.
CallWriteSource ==
    /\ wpc = "idle"
    /\ nIn < Len(source)
    /\ \E k \in 1..MaxChunk \cup {Len(source) - nIn} :
        /\ nIn + k <= Len(source)
        /\ wbuf' = SubSeq(source, nIn + 1, nIn + k)
    /\ writing_frame' = TRUE
    /\ wpc' = "write"
    /\ wcall' = "write"
    /\ wret' = NoRet
    /\ wg' = AtCall("write")
    /\ UNCHANGED <<opKind, eng, sink, buffer, offset, finished,
                   finished_frame, flush_finished, nIn, opIn, produced,
                   nSkips>>
    /\ UNCHANGED <<rvars, auto, skip, old>>

DecoderWriterNext ==
    \/ CallWriteSource
    \/ CallFinish
    \/ SinkWrite
    \/ WriteRun
    \/ FinishStep

DecoderWriterSpec == DecoderWriterInit /\ [][DecoderWriterNext]_vars

\* ------------------------------------------------- encode, then decode
\* A full cycle: a payload is pushed through a Writer over an Encoder
\* (writes, then finish) or pulled through a Reader over an Encoder; what
\* came out is then the source of a Reader over a Decoder.

\* Reader::new(&input[..], Encoder) over a payload of n bytes.
EncoderReaderInit ==
    /\ opKind = "Encoder"
    /\ eng = FreshEngine
    /\ finished = FALSE
    /\ finished_frame = FALSE
    /\ single_frame = FALSE
    /\ \E n \in 0..MaxIn :
          /\ shape = [lens |-> <<n>>, tail |-> "plain", keep |-> 0]
          /\ source = Payload(0, n)
    /\ pos = 0
    /\ avail = 0
    /\ rpc = "idle"
    /\ dstLen = 0
    /\ delivered = <<>>
    /\ rret = NoRet
    /\ rg = [lateCall |-> FALSE, open |-> FALSE, ended |-> FALSE,
             misfed |-> FALSE, eofOpen |-> FALSE]
    /\ NoWriter

CycleInit ==
    /\ \/ WriterInit /\ opKind = "Encoder"
       \/ EncoderReaderInit
    /\ auto = NoAuto /\ skip = NoSkip /\ old = NoOld

\* The stages of a cycle.
CycleWriting == opKind = "Encoder" /\ shape.tail = "none"

CycleReading == opKind = "Encoder" /\ shape.tail = "plain"

CycleDecoding == opKind = "Decoder"

\* Reader::new(&buffer[..], Decoder) over the bytes out, which should be
\* one frame holding the n bytes that went in.
DecodeWhat(out, n) ==
    /\ opKind' = "Decoder"
    /\ eng' = FreshEngine
    /\ finished' = FALSE
    /\ finished_frame' = FALSE
    /\ single_frame' = FALSE
    /\ shape' = [lens |-> <<n>>, tail |-> "none", keep |-> 0]
    /\ source' = out
    /\ pos' = 0
    /\ avail' = 0
    /\ rpc' = "idle"
    /\ dstLen' = 0
    /\ delivered' = <<>>
    /\ rret' = NoRet
    /\ rg' = [lateCall |-> FALSE, open |-> FALSE, ended |-> FALSE,
              misfed |-> FALSE, eofOpen |-> FALSE]
    /\ sink' = <<>>
    /\ buffer' = <<>>
    /\ offset' = 0
    /\ writing_frame' = FALSE
    /\ flush_finished' = FALSE
    /\ wpc' = "idle"
    /\ wcall' = "none"
    /\ wbuf' = <<>>
    /\ wret' = NoRet
    /\ nIn' = 0
    /\ opIn' = 0
    /\ produced' = <<>>
    /\ nSkips' = 0
    /\ wg' = [phase |-> "writing", finOk |-> FALSE, idem |-> FALSE,
              resumed |-> FALSE, opCalled |-> FALSE, sinkWrote |-> FALSE]
    /\ UNCHANGED <<auto, skip, old>>

\* The writer's finish returned Ok: its sink goes to the decoder.
DecodeWritten ==
    /\ CycleWriting
    /\ wpc = "idle" /\ wcall = "finish" /\ wret = Ok(0)
    /\ DecodeWhat(sink, nIn)

\* The encoder Reader was read to its end: what it delivered goes to the
\* decoder.
DecodeRead ==
    /\ CycleReading
    /\ rpc = "idle" /\ rret = Ok(0)
    /\ DecodeWhat(delivered, shape.lens[1])

CycleWrite == CycleWriting /\ LiveWrite

CycleFinish == CycleWriting /\ LiveFinish

\* The sink is a Vec: it takes what it is given.
CycleSinkWrite ==
    /\ SinkWrite
    /\ sink' = sink \o Drop(buffer, offset)

CycleCallRead == ~CycleWriting /\ CallRead

CycleNext ==
    \/ CycleWrite
    \/ CycleFinish
    \/ CycleSinkWrite
    \/ WriteRun
    \/ FinishStep
    \/ DecodeWritten
    \/ CycleCallRead
    \/ ReadRun
    \/ ReadEof
    \/ DecodeRead

CycleSpec == CycleInit /\ [][CycleNext]_vars


\* ------------------------------- read::Decoder::read_skippable_frame
\* size_of::<u32>()
U32_SIZE == 4

\* Longest content a skippable frame of the source declares.
MaxContent == 2

\* u32::to_le_bytes and u32::from_le_bytes.
ToLeBytes(n) == [i \in 1..U32_SIZE |-> (n \div (256 ^ (i - 1))) % 256]

RECURSIVE FromLeBytes(_)
FromLeBytes(b) ==
    IF b = <<>> THEN 0 ELSE b[1] + 256 * FromLeBytes(Tail(b))

\* Magic numbers a source begins with: two skippable variants and the
\* magic number of a regular frame.
Magics == {MAGIC_SKIPPABLE_START, MAGIC_SKIPPABLE_START + 3, MAGICNUMBER}

\* op.is_skippable_frame: the magic number lies among the sixteen
\* skippable ones.
IsSkippableFrame(magic_buffer) ==
    /\ Len(magic_buffer) >= U32_SIZE
    /\ FromLeBytes(Take(magic_buffer, U32_SIZE)) \div 16
          = MAGIC_SKIPPABLE_START \div 16

\* Sources of read_skippable_frame: magic number, declared content size
\* and the content, cut at any length.
SkippableSources ==
    { Take(ToLeBytes(mg) \o ToLeBytes(c) \o Payload(0, c),
           Min(k, 2 * U32_SIZE + c)) :
        mg \in Magics, c \in 0..MaxContent,
        k \in 0..(2 * U32_SIZE + MaxContent) }

\* Decoder::new over a seekable source; no read has been made.
SkippableReadInit ==
    /\ opKind = "Decoder"
    /\ eng = FreshEngine
    /\ finished = FALSE
    /\ finished_frame = FALSE
    /\ single_frame = FALSE
    /\ shape = [lens |-> <<>>, tail |-> "none", keep |-> 0]
    /\ source \in SkippableSources
    /\ pos = 0
    /\ avail = 0
    /\ rpc = "idle"
    /\ dstLen = 0
    /\ delivered = <<>>
    /\ rret = NoRet
    /\ rg = [lateCall |-> FALSE, open |-> FALSE, ended |-> FALSE,
             misfed |-> FALSE, eofOpen |-> FALSE]
    /\ NoWriter
    /\ auto = NoAuto
    /\ skip = NoSkip /\ old = NoOld

\* What read_skippable_frame leaves alone.
SkipFrame ==
    UNCHANGED <<wvars, shape, source, avail, single_frame, rpc, dstLen,
                delivered, rret, rg, auto, old>>

\* The caller invokes read_skippable_frame(dest) with a dest of d bytes:
\* the closure begins with the read_exact_or_seek_back of the magic number.
CallReadSkippable ==
    /\ skip.pc = "idle"
    /\ \E d \in 0..MaxDst :
          skip' = [NoSkip EXCEPT !.pc = "magic", !.dest = d, !.start = pos,
                                 !.need = U32_SIZE]
    /\ UNCHANGED pos
    /\ SkipFrame

\* The closure returns Err(e) with the message why; the match on res
\* seeks back by bytes_to_seek when that is not 0, from position p.
SkipFails(e, why, p, bytes_to_seek) ==
    /\ skip' = [skip EXCEPT !.pc = "idle", !.need = 0, !.bytes_read = 0,
                            !.bytes_to_seek = bytes_to_seek,
                            !.ret = Err(e), !.cause = why]
    /\ pos' = IF bytes_to_seek # 0 THEN p - bytes_to_seek ELSE p

\* The closure returns Ok((magic_number, content_size)).
SkipSucceeds(content_size, body, p) ==
    /\ skip' = [skip EXCEPT !.pc = "idle", !.need = 0, !.bytes_read = 0,
                            !.body = body, !.ret = Ok(content_size)]
    /\ pos' = p

\* After the magic number: the read of the content size begins.
MagicFilled(b, p) ==
    /\ skip' = [skip EXCEPT !.pc = "size", !.magic_buffer = b,
                            !.need = U32_SIZE, !.bytes_read = 0]
    /\ pos' = p

\* After the content size: the two checks, then the read of the content.
SizeFilled(b, p) ==
    LET content_size == FromLeBytes(b)
    IN IF ~IsSkippableFrame(skip.magic_buffer)
       THEN SkipFails("Other", "Unsupported frame parameter", p,
                      U32_SIZE * 2)
       ELSE IF content_size > skip.dest
       THEN SkipFails("Other", "Destination buffer is too small", p,
                      U32_SIZE * 2)
       ELSE IF content_size > 0
       THEN /\ skip' = [skip EXCEPT !.pc = "body", !.buffer = b,
                                    !.need = content_size,
                                    !.bytes_read = 0]
            /\ pos' = p
       ELSE SkipSucceeds(content_size, <<>>, p)

BodyFilled(b, p) == SkipSucceeds(FromLeBytes(skip.buffer), b, p)

\* The code after the read_exact_or_seek_back that filled its buffer with
\* b, the source then at p.
Filled(b, p) ==
    CASE skip.pc = "magic" -> MagicFilled(b, p)
      [] skip.pc = "size" -> SizeFilled(b, p)
      [] skip.pc = "body" -> BodyFilled(b, p)

\* One this.read(buf) of read_exact_or_seek_back, with what follows it
\* when the loop is left.  got is what the buffer held before; Filled(b, p)
\* is the code after the call, run when the buffer is full.
ReadExactOrSeekBack(got) ==
    \/ \* Ok(n): the source hands n bytes over
       \E n \in 1..Min(skip.need, Len(source) - pos) :
          LET b == got \o SubSeq(source, pos + 1, pos + n)
          IN IF n = skip.need
             THEN Filled(b, pos + n)
             ELSE /\ skip' = [skip EXCEPT !.need = @ - n,
                                          !.bytes_read = @ + n,
                                          !.magic_buffer =
                                              IF skip.pc = "magic"
                                              THEN b ELSE @,
                                          !.buffer =
                                              IF skip.pc = "size"
                                              THEN b ELSE @,
                                          !.body =
                                              IF skip.pc = "body"
                                              THEN b ELSE @]
                  /\ pos' = pos + n
    \/ \* Ok(0): end of the source; the loop breaks with buf not empty
       /\ pos = Len(source)
       /\ SkipFails("UnexpectedEof", "failed to fill whole buffer",
                    pos - skip.bytes_read, 0)
    \/ \* Err(Interrupted): the loop goes round again
       /\ UNCHANGED <<skip, pos>>
    \/ \* any other error of the source
       \E e \in {"WouldBlock", "Other"} :
          SkipFails(e, "source", pos - skip.bytes_read, 0)

ReadMagic ==
    /\ skip.pc = "magic"
    /\ ReadExactOrSeekBack(skip.magic_buffer)
    /\ SkipFrame

ReadSize ==
    /\ skip.pc = "size"
    /\ ReadExactOrSeekBack(skip.buffer)
    /\ SkipFrame

ReadBody ==
    /\ skip.pc = "body"
    /\ ReadExactOrSeekBack(skip.body)
    /\ SkipFrame

SkippableReadNext ==
    \/ CallReadSkippable
    \/ ReadMagic
    \/ ReadSize
    \/ ReadBody

SkippableReadSpec == SkippableReadInit /\ [][SkippableReadNext]_vars

\* ------------------------------------------- the drivers around NoOp
\* Reader::new(Cursor::new(input), NoOp).
NoOpReaderInit ==
    /\ opKind = "NoOp"
    /\ eng = FreshEngine
    /\ finished = FALSE
    /\ finished_frame = FALSE
    /\ single_frame = FALSE
    /\ \E n \in 0..MaxIn :
          /\ shape = [lens |-> <<n>>, tail |-> "plain", keep |-> 0]
          /\ source = Payload(0, n)
    /\ pos = 0
    /\ avail = 0
    /\ rpc = "idle"
    /\ dstLen = 0
    /\ delivered = <<>>
    /\ rret = NoRet
    /\ rg = [lateCall |-> FALSE, open |-> FALSE, ended |-> FALSE,
             misfed |-> FALSE, eofOpen |-> FALSE]
    /\ NoWriter

\* Writer::new(&mut output, NoOp), or the Reader.
NoOpInit ==
    /\ \/ WriterInit /\ opKind = "NoOp"
       \/ NoOpReaderInit
    /\ auto = NoAuto
    /\ skip = NoSkip /\ old = NoOld

\* Which of the two drivers the run is about.
NoOpWriting == shape.tail = "none"

NoOpReading == shape.tail = "plain"

NoOpWrite == NoOpWriting /\ CallWrite

NoOpFlush == NoOpWriting /\ CallFlush

NoOpFinish == NoOpWriting /\ CallFinish

NoOpCallRead == NoOpReading /\ CallRead

NoOpNext ==
    \/ NoOpWrite
    \/ NoOpFlush
    \/ NoOpFinish
    \/ SinkWrite
    \/ WriteRun
    \/ FinishStep
    \/ FlushStep
    \/ SinkFlush
    \/ NoOpCallRead
    \/ ReadFillErr
    \/ ReadRun
    \/ ReadEof

NoOpSpec == NoOpInit /\ [][NoOpNext]_vars

\* ------------------------- zio::Writer over a Decoder, any write calls
\* The caller invokes Writer::write(&[]): Write allows an empty buf at any
\* time.
CallWriteNothing ==
    /\ wpc = "idle"
    /\ wbuf' = <<>>
    /\ writing_frame' = TRUE
    /\ wpc' = "write"
    /\ wcall' = "write"
    /\ wret' = NoRet
    /\ wg' = AtCall("write")
    /\ UNCHANGED <<opKind, eng, sink, buffer, offset, finished,
                   finished_frame, flush_finished, nIn, opIn, produced,
                   nSkips>>
    /\ UNCHANGED <<rvars, auto, skip, old>>

AnyWriteNext ==
    \/ CallWriteNothing
    \/ CallWriteSource
    \/ CallFinish
    \/ SinkWrite
    \/ WriteRun
    \/ FinishStep

AnyWriteSpec == DecoderWriterInit /\ [][AnyWriteNext]_vars

\* ------------------------------------- stream::Encoder, stream/encoder.rs
\* Encoder::with_context: Accepting, an empty buffer of capacity BufCap.
StreamEncoderInit ==
    /\ WriterInit
    /\ opKind = "Encoder"
    /\ auto = NoAuto
    /\ skip = NoSkip
    /\ old = [state |-> "Accepting", panic |-> "none"]

\* Whether the encoder can still be called: no call is running, none has
\* panicked, and finish has not consumed it.
Usable ==
    /\ wpc = "idle"
    /\ old.panic = "none"
    /\ ~(wcall = "finish" /\ wret.tag = "Ok")

\* The running call panics with message why, the encoder in state st.
Panics(why, st) ==
    /\ old' = [state |-> st, panic |-> why]
    /\ wpc' = "idle"
    /\ wret' = NoRet
    /\ wbuf' = <<>>

\* The caller invokes Encoder::write(buf): a panic unless Accepting.
StreamCallWrite ==
    /\ Usable
    /\ wcall' = "write"
    /\ wg' = AtCall("write")
    /\ IF old.state # "Accepting"
       THEN Panics("write called after try_finish attempted", old.state)
       ELSE /\ \E k \in 0..MaxChunk :
                 /\ nIn + k <= MaxIn
                 /\ wbuf' = Payload(nIn, k)
            /\ wpc' = "write"
            /\ wret' = NoRet
            /\ UNCHANGED old
    /\ UNCHANGED <<opKind, eng, sink, buffer, offset, finished,
                   finished_frame, writing_frame, flush_finished, nIn, opIn,
                   produced, nSkips>>
    /\ UNCHANGED <<rvars, auto, skip>>

\* The call of method begins.
StreamBegins(method) ==
    /\ wpc' = method
    /\ wcall' = method
    /\ wret' = NoRet
    /\ wg' = AtCall(method)
    /\ UNCHANGED <<opKind, eng, sink, buffer, offset, finished,
                   finished_frame, writing_frame, flush_finished, wbuf, nIn,
                   opIn, produced, nSkips>>
    /\ UNCHANGED <<rvars, auto, skip, old>>

\* The caller invokes Encoder::flush.
StreamCallFlush == Usable /\ StreamBegins("flush")

\* The caller invokes try_finish, and with it do_finish.
StreamCallFinish == Usable /\ StreamBegins("finish")

\* Whether the running call is inside a write_from_offset: the one that
\* opens write, the one flush and do_finish make while Accepting, or the
\* one that ends flush and do_finish.
StreamDraining ==
    \/ wpc \in {"write", "last_drain"}
    \/ wpc \in {"flush", "finish"} /\ old.state = "Accepting"

\* One iteration of this encoder's write_from_offset: Ok(n) moves offset
\* by n, be it 0; Interrupted goes round again; any other error returns.
StreamSinkWrite ==
    /\ StreamDraining
    /\ offset < Len(buffer)
    /\ \/ \E n \in 1..(Len(buffer) - offset) :
            /\ Len(sink) + n <= MaxSink
            /\ sink' = sink \o SubSeq(buffer, offset + 1, offset + n)
            /\ offset' = offset + n
            /\ WStay([wg EXCEPT !.sinkWrote = TRUE])
            /\ UNCHANGED flush_finished
       \/ /\ WStay(wg)                                 \* Ok(0), Interrupted
          /\ UNCHANGED <<sink, offset, flush_finished>>
       \/ \E e \in SinkErrs :
            /\ WReturn(Err(e))
            /\ UNCHANGED <<sink, offset>>
    /\ UNCHANGED <<opKind, eng, buffer, finished, finished_frame,
                   writing_frame, wcall, nIn, opIn, produced, nSkips>>
    /\ UNCHANGED <<rvars, auto, skip, old>>

\* Encoder::write after its drain: one ZSTD_compressStream into the
\* buffer, then return or loop.
StreamWriteRun ==
    /\ wpc = "write"
    /\ offset = Len(buffer)
    /\ \E s \in EncoderRun(eng, wbuf, BufCap) :
        /\ eng' = s.eng
        /\ buffer' = s.out
        /\ produced' = produced \o s.out
        /\ opIn' = opIn + s.read
        /\ IF s.err # "none"
           THEN /\ offset' = offset
                /\ nIn' = nIn
                /\ WReturn(Err(s.err))
           ELSE /\ offset' = 0
                /\ IF s.read > 0 \/ Len(wbuf) = 0
                   THEN nIn' = nIn + s.read /\ WReturn(Ok(s.read))
                   ELSE /\ nIn' = nIn
                        /\ WStay([wg EXCEPT !.opCalled = TRUE])
                        /\ UNCHANGED flush_finished
    /\ UNCHANGED <<opKind, sink, finished, finished_frame, writing_frame,
                   wcall, nSkips>>
    /\ UNCHANGED <<rvars, auto, skip, old>>

\* Encoder::flush after its drain: while Accepting one ZSTD_flushStream,
\* whose return value is only parsed for an error; then the last drain.
StreamFlushStream ==
    /\ wpc = "flush"
    /\ old.state # "Accepting" \/ offset = Len(buffer)
    /\ IF old.state = "Accepting"
       THEN \E s \in EncoderFlush(eng, BufCap) :
              /\ eng' = s.eng
              /\ buffer' = s.out
              /\ produced' = produced \o s.out
              /\ IF s.err # "none"
                 THEN /\ WReturn(Err(s.err))
                      /\ UNCHANGED offset
                 ELSE /\ offset' = 0
                      /\ wpc' = "last_drain"
                      /\ wg' = [wg EXCEPT !.opCalled = TRUE]
                      /\ UNCHANGED <<wret, wbuf, flush_finished>>
       ELSE /\ wpc' = "last_drain"
            /\ UNCHANGED <<eng, buffer, offset, produced, wret, wbuf,
                           flush_finished, wg>>
    /\ UNCHANGED <<opKind, sink, finished, finished_frame, writing_frame,
                   wcall, nIn, opIn, nSkips>>
    /\ UNCHANGED <<rvars, auto, skip, old>>

\* A slip: do_finish ends the stream whatever the state.
StreamEndedNever(st) == FALSE

\* Whether do_finish finds the stream already ended and goes straight to
\* its last drain.
StreamEnded(st) == st = "StreamEnd"

\* do_finish after its drain: Accepting becomes Finished; in Finished one
\* ZSTD_endStream into the buffer, and a panic when it returns a remaining
\* that is not 0; then StreamEnd and the last drain.
StreamEndStream ==
    /\ wpc = "finish"
    /\ old.state # "Accepting" \/ offset = Len(buffer)
    /\ IF StreamEnded(old.state)
       THEN /\ wpc' = "last_drain"
            /\ UNCHANGED <<eng, buffer, offset, produced, wret, wbuf,
                           flush_finished, wg, old>>
       ELSE \E s \in EncoderFinish(eng, BufCap, FALSE) :
              /\ eng' = s.eng
              /\ IF s.err # "none"
                 THEN /\ WReturn(Err(s.err))
                      /\ old' = [old EXCEPT !.state = "Finished"]
                      /\ UNCHANGED <<buffer, offset, produced>>
                 ELSE /\ buffer' = s.out
                      /\ produced' = produced \o s.out
                      /\ IF s.hint # 0
                         THEN /\ Panics("Need to flush, but I'm lazy.",
                                        "Finished")
                              /\ UNCHANGED <<offset, flush_finished, wg>>
                         ELSE /\ offset' = 0
                              /\ old' = [old EXCEPT !.state = "StreamEnd"]
                              /\ wpc' = "last_drain"
                              /\ wg' = [wg EXCEPT !.opCalled = TRUE]
                              /\ UNCHANGED <<wret, wbuf, flush_finished>>
    /\ UNCHANGED <<opKind, sink, finished, finished_frame, writing_frame,
                   wcall, nIn, opIn, nSkips>>
    /\ UNCHANGED <<rvars, auto, skip>>

\* The write_from_offset that ends flush and do_finish has emptied the
\* buffer: the call returns Ok(()).
StreamDrained ==
    /\ wpc = "last_drain"
    /\ offset = Len(buffer)
    /\ WReturn(Ok(0))
    /\ UNCHANGED <<opKind, eng, sink, buffer, offset, finished,
                   finished_frame, writing_frame, wcall, nIn, opIn, produced,
                   nSkips>>
    /\ UNCHANGED <<rvars, auto, skip, old>>

StreamEncoderNext ==
    \/ StreamCallWrite
    \/ StreamCallFlush
    \/ StreamCallFinish
    \/ StreamSinkWrite
    \/ StreamWriteRun
    \/ StreamFlushStream
    \/ StreamEndStream
    \/ StreamDrained

StreamEncoderSpec == StreamEncoderInit /\ [][StreamEncoderNext]_vars

\* ------------------------------------ zio::Reader over any operation
\* A Reader over a Decoder, an Encoder or NoOp.
AnyReaderInit ==
    /\ \/ ReaderInit
       \/ EncoderReaderInit
       \/ NoOpReaderInit
    /\ auto = NoAuto
    /\ skip = NoSkip
    /\ old = NoOld

AnyReaderSpec == AnyReaderInit /\ [][ReaderNext]_vars

\* ------------------------------------------ read::Decoder::skip_frame
\* size_of::<u16>() + size_of::<u8>()
U24_SIZE == 3

\* ZSTD_BLOCK_HEADER_SIZE of find_frame_compressed_size
ZSTD_BLOCK_HEADER_SIZE == 3

\* MAX_FRAME_HEADER_SIZE_PREFIX of frame_header_size
MAX_FRAME_HEADER_SIZE_PREFIX == 5

\* zstd_safe::SKIPPABLEHEADERSIZE
SKIPPABLEHEADERSIZE == 8

\* Most blocks in a frame of the source, and the largest Block_Size.
MaxBlocks == 2

MaxBlockSize == 2

\* Block types of the format: Raw_Block, RLE_Block, Compressed_Block.
RAW == 0

RLE == 1

COMPRESSED == 2

\* The blocks a frame is built of: type and Block_Size.  An RLE block
\* repeats its one byte Block_Size times.
BlockKinds ==
    { <<t, n>> \in {RAW, RLE, COMPRESSED} \X (0..MaxBlockSize) :
        t = RAW \/ n >= 1 }

\* Frame_Header_Descriptor bytes of the source: plain; with the checksum
\* flag (bit 2); single segment (bit 5) with a one-byte dictionary id.
Descriptors == {0, 4, 33}

\* ZSTD_frameHeaderSize of a header that begins with prefix: magic number
\* and descriptor, window descriptor unless single segment, dictionary id,
\* frame content size.
FrameHeaderSize(prefix) ==
    LET fhd == prefix[MAX_FRAME_HEADER_SIZE_PREFIX]
        dictID == fhd % 4
        single == (fhd \div 32) % 2
        fcsID == fhd \div 64
    IN  MAX_FRAME_HEADER_SIZE_PREFIX + (1 - single)
        + (CASE dictID = 0 -> 0 [] dictID = 1 -> 1 [] dictID = 2 -> 2
             [] OTHER -> 4)
        + (IF fcsID = 0 THEN single ELSE 2 ^ fcsID)

\* The bytes of a block of kind k: Block_Header (bit 0 last block, bits 1-2
\* the type, bits 3-23 Block_Size), then Block_Content, which is one byte
\* in an RLE block and Block_Size bytes otherwise.
BlockBytes(k, last) ==
    Take(ToLeBytes((IF last THEN 1 ELSE 0) + 2 * k[1] + 8 * k[2]), U24_SIZE)
    \o [i \in 1..(IF k[1] = RLE THEN 1 ELSE k[2]) |-> 200 + i]

RECURSIVE BlocksBytes(_)
BlocksBytes(ks) ==
    IF ks = <<>> THEN <<>>
    ELSE BlockBytes(Head(ks), Len(ks) = 1) \o BlocksBytes(Tail(ks))

\* The bytes of a regular frame with descriptor fhd and blocks ks.
RegularFrame(fhd, ks) ==
    LET prefix == ToLeBytes(MAGICNUMBER) \o <<fhd>>
    IN  prefix
        \o [i \in 1..(FrameHeaderSize(prefix) - Len(prefix)) |-> 0]
        \o BlocksBytes(ks)
        \o (IF (fhd \div 4) % 2 = 1 THEN <<1, 2, 3, 4>> ELSE <<>>)

\* The bytes of a skippable frame of variant v with c bytes of content.
SkippableBytes(v, c) ==
    ToLeBytes(MAGIC_SKIPPABLE_START + v) \o ToLeBytes(c) \o Payload(0, c)

\* Frames skip_frame is called on.
FirstFrames ==
    { RegularFrame(fhd, ks) :
        fhd \in Descriptors,
        ks \in UNION { [1..n -> BlockKinds] : n \in 1..MaxBlocks } }
    \cup { SkippableBytes(v, c) : v \in {0, 3}, c \in 0..MaxContent }

\* What follows them in the source.
NextFrames ==
    { <<>>, SkippableBytes(0, 0), RegularFrame(0, <<<<RAW, 0>>>>) }

\* Decoder::new over a seekable in-memory source of one or two frames;
\* shape.lens are the sizes of the frames.
SkipFrameInit ==
    /\ opKind = "Decoder"
    /\ eng = FreshEngine
    /\ finished = FALSE
    /\ finished_frame = FALSE
    /\ single_frame = FALSE
    /\ \E f \in FirstFrames, g \in NextFrames :
          /\ source = f \o g
          /\ shape = [lens |-> IF g = <<>> THEN <<Len(f)>>
                               ELSE <<Len(f), Len(g)>>,
                      tail |-> "frames", keep |-> 0]
    /\ pos = 0
    /\ avail = 0
    /\ rpc = "idle"
    /\ dstLen = 0
    /\ delivered = <<>>
    /\ rret = NoRet
    /\ rg = [lateCall |-> FALSE, open |-> FALSE, ended |-> FALSE,
             misfed |-> FALSE, eofOpen |-> FALSE]
    /\ NoWriter
    /\ auto = NoAuto
    /\ skip = NoSkip
    /\ old = NoOld

\* Outcome of a step inside skip_frame: whether it succeeded, where it
\* left the source, and the values it returned.
StepDone(p, n, flag) == [ok |-> TRUE, pos |-> p, n |-> n, flag |-> flag]

StepFailed(p) ==
    [ok |-> FALSE, pos |-> p, n |-> 0, flag |-> FALSE]

\* Read::read_exact of n bytes at p: at EOF it fails, the source read to
\* its end.
ReadExact(p, n) ==
    IF p + n <= Len(source) THEN StepDone(p + n, 0, FALSE)
    ELSE StepFailed(Len(source))

\* consume(reader, n) at p: reads and discards n bytes, UnexpectedEof when
\* the source ends before.
ConsumeBytes(p, n) ==
    IF p + n <= Len(source) THEN StepDone(p + n, 0, FALSE)
    ELSE StepFailed(Len(source))

\* get_block_size at p: reads the 3 bytes of the block header, takes the
\* header shifted right by 3 for the size and bit 0 for last_block, and
\* seeks back.
GetBlockSize(p) ==
    IF ~ReadExact(p, U24_SIZE).ok THEN StepFailed(Len(source))
    ELSE LET block_header == FromLeBytes(SubSeq(source, p + 1, p + U24_SIZE))
         IN  StepDone(p, block_header \div 8, block_header % 2 # 0)

\* frame_header_size at p: reads 5 bytes or seeks back, asks
\* zstd_safe::frame_header_size, takes bit 2 of the descriptor for the
\* checksum flag, and seeks back.
FrameHeaderSizeAt(p) ==
    IF ~ReadExact(p, MAX_FRAME_HEADER_SIZE_PREFIX).ok THEN StepFailed(p)
    ELSE LET prefix == SubSeq(source, p + 1,
                               p + MAX_FRAME_HEADER_SIZE_PREFIX)
         IN  IF FromLeBytes(Take(prefix, U32_SIZE)) # MAGICNUMBER
             THEN StepFailed(p + MAX_FRAME_HEADER_SIZE_PREFIX)
             ELSE StepDone(p, FrameHeaderSize(prefix),
                       (prefix[MAX_FRAME_HEADER_SIZE_PREFIX] \div 4) % 2 # 0)

\* read_skippable_frame_size at p: two reads of 4 bytes, each seeking back
\* over its own bytes when it fails; then seek_back(8).
ReadSkippableFrameSize(p) ==
    IF p + U32_SIZE > Len(source) THEN StepFailed(p)
    ELSE IF p + 2 * U32_SIZE > Len(source) THEN StepFailed(p + U32_SIZE)
    ELSE StepDone(p,
              FromLeBytes(SubSeq(source, p + U32_SIZE + 1, p + 2 * U32_SIZE))
                + SKIPPABLEHEADERSIZE,
              FALSE)

\* The loop of find_frame_compressed_size over the blocks, the source at
\* p: the header's size field taken for the length of the content.
RECURSIVE WalkBlocks(_, _)
WalkBlocks(p, bytes_read) ==
    LET g == GetBlockSize(p)
        block_size == ZSTD_BLOCK_HEADER_SIZE + g.n
        c == ConsumeBytes(p, block_size)
    IN  IF ~g.ok THEN StepFailed(g.pos)
        ELSE IF ~c.ok THEN StepFailed(c.pos)
        ELSE IF g.flag THEN StepDone(c.pos, bytes_read + block_size, FALSE)
        ELSE WalkBlocks(c.pos, bytes_read + block_size)

\* find_frame_compressed_size at p.
FindFrameCompressedSize(p) ==
    IF ~ReadExact(p, U32_SIZE).ok THEN StepFailed(Len(source))
    ELSE IF IsSkippableFrame(SubSeq(source, p + 1, p + U32_SIZE))
    THEN ReadSkippableFrameSize(p)
    ELSE LET h == FrameHeaderSizeAt(p)
             c == ConsumeBytes(p, h.n)
             w == WalkBlocks(c.pos, h.n)
         IN  IF ~h.ok THEN StepFailed(h.pos)
             ELSE IF ~c.ok THEN StepFailed(c.pos)
             ELSE IF ~w.ok THEN StepFailed(w.pos)
             ELSE StepDone(w.pos - w.n, IF h.flag THEN w.n + 4 ELSE w.n, FALSE)

\* The caller invokes skip_frame: find_frame_compressed_size, then
\* consume(size).
CallSkipFrame ==
    /\ skip.pc \in {"idle", "skipped"}
    /\ skip.ret.tag # "Err"
    /\ pos < Len(source)
    /\ LET f == FindFrameCompressedSize(pos)
           c == ConsumeBytes(f.pos, f.n)
       IN  /\ pos' = IF f.ok THEN c.pos ELSE f.pos
           /\ skip' = [NoSkip EXCEPT
                         !.pc = "skipped",
                         !.start = pos,
                         !.ret = IF f.ok /\ c.ok THEN Ok(f.n)
                                 ELSE Err("UnexpectedEof")]
    /\ SkipFrame

SkipFrameSpec == SkipFrameInit /\ [][CallSkipFrame]_vars

\* ------------------------------------- zio::Writer over a Decoder, flushed
\* The compressed input of a Writer over a Decoder that is flushed between
\* writes: one frame, its payload up to twice what the staging buffer
\* holds, whole or cut to its first keep bytes.
FlushShapes ==
    { sh \in [lens : [1..1 -> 0..(2 * BufCap)],
              tail : {"none", "cut"},
              keep : 0..(2 * BufCap + 1)] :
        IF sh.tail = "cut"
        THEN sh.keep >= 1 /\ sh.keep <= sh.lens[1] + 1
        ELSE sh.keep = 0 }

\* Writer::new(&mut output, Decoder::new()); source holds the bytes the
\* caller is going to write.
DecoderFlushInit ==
    /\ opKind = "Decoder"
    /\ eng = FreshEngine
    /\ finished = FALSE
    /\ finished_frame = FALSE
    /\ shape \in FlushShapes
    /\ source = SourceOf(shape)
    /\ pos = 0
    /\ avail = 0
    /\ single_frame = FALSE
    /\ rpc = "idle"
    /\ dstLen = 0
    /\ delivered = <<>>
    /\ rret = NoRet
    /\ rg = [lateCall |-> FALSE, open |-> FALSE, ended |-> FALSE,
             misfed |-> FALSE, eofOpen |-> FALSE]
    /\ NoWriter
    /\ auto = NoAuto
    /\ skip = NoSkip
    /\ old = NoOld

DecoderFlushNext ==
    \/ CallWriteSource
    \/ CallFlush
    \/ SinkWrite
    \/ WriteRun
    \/ FlushStep
    \/ SinkFlush

\* The calls run to their next sink call by themselves, and a sink asked
\* again and again eventually accepts bytes or fails for good.
DecoderFlushSpec ==
    /\ DecoderFlushInit
    /\ [][DecoderFlushNext]_vars
    /\ WF_vars(WriteRun)
    /\ WF_vars(FlushStep)
    /\ WF_vars(SinkFlush)
    /\ SF_vars(SinkAccepts)

\* ------------------------------- zio::Reader, read into any buffer
\* The caller invokes Reader::read(buf) with an empty buf.
CallReadEmpty ==
    /\ rpc = "idle"
    /\ dstLen' = 0
    /\ IF finished
       THEN RReturn(Ok(0))
       ELSE rpc' = "loop" /\ rret' = NoRet
    /\ rg' = [rg EXCEPT !.eofOpen = FALSE]
    /\ UNCHANGED <<opKind, eng, finished, finished_frame, shape, source, pos,
                   avail, single_frame, delivered>>
    /\ UNCHANGED <<sink, buffer, offset, writing_frame, flush_finished, wpc,
                   wcall, wbuf, wret, nIn, opIn, produced, nSkips, wg,
                   auto, skip, old>>

AnyReadNext ==
    \/ CallRead
    \/ CallReadEmpty
    \/ ReadFillErr
    \/ ReadRun
    \/ ReadEof

\* The source does not fail for ever and the call runs on by itself.
AnyReadSpec ==
    /\ AnyReaderInit
    /\ [][AnyReadNext]_vars
    /\ WF_vars(ReadRun)
    /\ WF_vars(ReadEof)

\* ------------------------------- stream::Decoder, stream/decoder.rs
\* The decoder that holds the decompression context and its own input
\* buffer: buffer and offset are its fields of these names, source and pos
\* its reader, eng its context.  in_buffer.pos is offset and
\* in_buffer.size is Len(buffer) wherever a handler begins.

\* A source without a byte.
EmptyShape == [lens |-> <<>>, tail |-> "none", keep |-> 0]

\* DecoderState and the hint RefillBuffer carries.
DecoderState(st, hint) == [old EXCEPT !.state = st, !.hint = hint]

\* Decoder::new(reader), then single_frame() or not.
StreamDecoderInit ==
    /\ opKind = "Decoder"
    /\ eng = FreshEngine
    /\ finished = FALSE
    /\ finished_frame = FALSE
    /\ single_frame \in BOOLEAN
    /\ shape \in Shapes \cup {EmptyShape}
    /\ source = SourceOf(shape)
    /\ pos = 0
    /\ avail = 0
    /\ rpc = "idle"
    /\ dstLen = 0
    /\ delivered = <<>>
    /\ rret = NoRet
    /\ rg = [lateCall |-> FALSE, open |-> FALSE, ended |-> FALSE,
             misfed |-> FALSE, eofOpen |-> FALSE]
    /\ NoWriter
    /\ auto = NoAuto
    /\ skip = NoSkip
    /\ old = [state |-> "RefillBuffer", hint |-> "None", panic |-> "none",
              out |-> <<>>, ended |-> FALSE]

\* The running read leaves its loop: Ok(out_buffer.pos), or the error.
StreamReturn(r) ==
    /\ rpc' = "idle"
    /\ rret' = r
    /\ delivered' = IF r.tag = "Ok" THEN delivered \o old.out ELSE delivered

\* The caller invokes Decoder::read(buf) with a buf of n >= 1 bytes.
StreamCallRead ==
    /\ rpc = "idle"
    /\ \E n \in 1..MaxDst : dstLen' = n
    /\ rpc' = "loop"
    /\ rret' = NoRet
    /\ old' = [old EXCEPT !.out = <<>>]
    /\ UNCHANGED <<wvars, shape, source, pos, avail, single_frame,
                   delivered, rg, auto, skip>>

\* The loop finds the state Completed: Ok(0).
StreamCompleted ==
    /\ rpc = "loop"
    /\ old.state = "Completed"
    /\ rpc' = "idle"
    /\ rret' = Ok(0)
    /\ UNCHANGED <<wvars, shape, source, pos, avail, single_frame, dstLen,
                   delivered, rg, auto, skip, old>>

\* handle_refill when the reader fails: the buffer keeps the length
\* refill_buffer gave it before the read.
StreamRefillErr ==
    /\ rpc = "loop"
    /\ old.state = "RefillBuffer"
    /\ \E e \in SinkErrs :
          StreamReturn(IF e = "WouldBlock" /\ Len(old.out) > 0
                       THEN Ok(Len(old.out)) ELSE Err(e))
    /\ buffer' = [i \in 1..BufCap |->
                     IF i <= Len(buffer) THEN buffer[i] ELSE GARBAGE]
    /\ UNCHANGED <<opKind, eng, sink, offset, finished, finished_frame,
                   writing_frame, flush_finished, wpc, wcall, wbuf, wret,
                   nIn, opIn, produced, nSkips, wg>>
    /\ UNCHANGED <<shape, source, pos, avail, single_frame, dstLen, rg,
                   auto, skip, old>>

\* handle_refill: refill_buffer reads read bytes into the emptied buffer
\* (0 only at the end of the source), then the hint decides.
StreamHandleRefill ==
    /\ rpc = "loop"
    /\ old.state = "RefillBuffer"
    /\ \E read \in 0..Min(BufCap, Len(source) - pos) :
          /\ read = 0 <=> pos = Len(source)
          /\ buffer' = SubSeq(source, pos + 1, pos + read)
          /\ offset' = 0
          /\ pos' = pos + read
          /\ LET refilled == read > 0
             IN  CASE old.hint = "None" ->
                        /\ old' = DecoderState("Active", "None")
                        /\ eng' = eng
                        /\ UNCHANGED <<rpc, rret, delivered>>
                   [] old.hint = "FailIfEmpty" /\ refilled ->
                        /\ old' = DecoderState("Active", "None")
                        /\ eng' = eng
                        /\ UNCHANGED <<rpc, rret, delivered>>
                   [] old.hint = "FailIfEmpty" /\ ~refilled ->
                        /\ StreamReturn(Err("UnexpectedEof"))
                        /\ UNCHANGED <<eng, old>>
                   [] old.hint = "EndOfFrame" /\ refilled ->
                        /\ eng' = DecoderReinit(eng)
                        /\ old' = DecoderState("Active", "None")
                        /\ UNCHANGED <<rpc, rret, delivered>>
                   [] old.hint = "EndOfFrame" /\ ~refilled ->
                        /\ old' = DecoderState("Completed", "None")
                        /\ StreamReturn(Ok(Len(old.out)))
                        /\ eng' = eng
    /\ UNCHANGED <<opKind, sink, finished, finished_frame, writing_frame,
                   flush_finished, wpc, wcall, wbuf, wret, nIn, opIn,
                   produced, nSkips, wg>>
    /\ UNCHANGED <<shape, source, avail, single_frame, dstLen, rg, auto,
                   skip>>

\* handle_active, one turn of its while loop: the output is full, or the
\* input is used up, or one ZSTD_decompressStream and what follows it.
StreamHandleActive ==
    /\ rpc = "loop"
    /\ old.state = "Active"
    /\ CASE Len(old.out) >= dstLen ->
              /\ StreamReturn(Ok(Len(old.out)))
              /\ UNCHANGED <<eng, offset, old>>
         [] Len(old.out) < dstLen /\ offset = Len(buffer) ->
              /\ old' = DecoderState("RefillBuffer", "None")
              /\ UNCHANGED <<eng, offset, rpc, rret, delivered>>
         [] OTHER ->
              \E s \in DecoderRun(eng, Drop(buffer, offset),
                                  dstLen - Len(old.out)) :
                 IF s.err # "none"
                 THEN /\ StreamReturn(Err(s.err))
                      /\ UNCHANGED <<eng, offset, old>>
                 ELSE LET is_end_of_frame == s.hint = 0
                          out == old.out \o s.out
                          o == [old EXCEPT
                                  !.out = out,
                                  !.ended = old.ended \/ is_end_of_frame]
                      IN  /\ eng' = s.eng
                          /\ offset' = offset + s.read
                          /\ IF offset' = Len(buffer)
                             THEN /\ old' = [o EXCEPT
                                       !.state = "RefillBuffer",
                                       !.hint = IF is_end_of_frame
                                                THEN "EndOfFrame"
                                                ELSE "FailIfEmpty"]
                                  /\ UNCHANGED <<rpc, rret, delivered>>
                             ELSE IF is_end_of_frame /\ single_frame
                             THEN /\ old' = [o EXCEPT
                                       !.state = "Completed"]
                                  /\ rpc' = "idle"
                                  /\ rret' = Ok(Len(out))
                                  /\ delivered' = delivered \o out
                             ELSE /\ old' = o
                                  /\ UNCHANGED <<rpc, rret, delivered>>
    /\ UNCHANGED <<opKind, sink, buffer, finished, finished_frame,
                   writing_frame, flush_finished, wpc, wcall, wbuf, wret,
                   nIn, opIn, produced, nSkips, wg>>
    /\ UNCHANGED <<shape, source, pos, avail, single_frame, dstLen, rg,
                   auto, skip>>

StreamDecoderNext ==
    \/ StreamCallRead
    \/ StreamCompleted
    \/ StreamRefillErr
    \/ StreamHandleRefill
    \/ StreamHandleActive

StreamDecoderSpec == StreamDecoderInit /\ [][StreamDecoderNext]_vars

\* The read runs on by itself.
StreamDecoderLiveSpec ==
    /\ StreamDecoderInit
    /\ [][StreamDecoderNext]_vars
    /\ WF_vars(StreamCompleted)
    /\ WF_vars(StreamHandleRefill)
    /\ WF_vars(StreamHandleActive)

\* ------------------------------------------------------ Writer properties
\* What write_all(s) then finish leaves in a sink that accepts everything
\* at once: the operation's complete output for s.
AllAtOnce(k, s) == IF k = "Encoder" THEN Frame(s) ELSE s

\* C1: the bytes the sink accepted followed by the pending slice
\* buffer[offset..] are exactly the bytes produced so far, in order
\* (nothing dropped, duplicated or reordered), after any calls.
C1_SinkFollowsProduced == sink \o Drop(buffer, offset) = produced

\* C2: writes (retried when they fail) followed by finish (retried until it
\* returns Ok) leave in a sink that takes bytes piecewise and fails now and
\* then the same bytes as in a sink that accepts everything at once.
C2_PartialEqualsAllAtOnce ==
    (wg.phase = "finishing" /\ wpc = "idle" /\ wcall = "finish"
        /\ wret = Ok(0))
    => sink = AllAtOnce(opKind, Payload(0, nIn))

C2_Witness ==
    /\ wg.phase = "finishing" /\ wpc = "idle" /\ wcall = "finish"
    /\ wret = Ok(0) /\ wg.resumed
    /\ opKind = "Encoder" /\ nIn = MaxIn

\* C3: a write that returns a sink error has consumed nothing of buf that
\* was not reported (every earlier Ok(n) accounted for n), and a run that
\* consumes input ends the call with Ok(n) without a further sink write.
C3_WriteErrsBeforeConsuming ==
    /\ []((wpc = "idle" /\ wcall = "write" /\ wret.tag = "Err") => opIn = nIn)
    /\ [][opIn' > opIn =>
            (wpc' = "idle" /\ wret' = Ok(opIn' - opIn) /\ sink' = sink)]_vars

C3_Witness ==
    /\ wpc = "idle" /\ wcall = "write" /\ wret = Err("WouldBlock")
    /\ opIn > 0 /\ offset < Len(buffer)

\* Method m has returned Ok with everything produced in the sink, once:
\* nothing pending in the Writer or in the operation and, for finish, the
\* whole frame with its footer.
Completed(m) ==
    /\ wpc = "idle" /\ wcall = m /\ wret = Ok(0)
    /\ offset = Len(buffer)
    /\ sink = produced
    /\ eng.pend = <<>>
    /\ m = "finish" =>
          finished /\ sink = AllAtOnce(opKind, Payload(0, nIn))

\* C4: a finish or a flush that returned WouldBlock and is called again
\* (and again) eventually returns Ok, provided the sink eventually accepts
\* bytes; by then every staged byte, and for finish the complete frame
\* with its footer, is in the sink exactly once.
C4_ResumeCompletes ==
    /\ Blocked("finish") ~> Completed("finish")
    /\ Blocked("flush") ~> Completed("flush")

C4_Witness ==
    /\ Completed("finish") /\ wg.resumed
    /\ opKind = "Encoder" /\ nIn = MaxIn /\ wg.phase = "closing"

\* C5: a finish call made after finish returned Ok, with no write or
\* write_skippable_frame in between, returns Ok, calls no method of the
\* operation and writes nothing to the sink.
C5_FinishIdempotent ==
    (wcall = "finish" /\ wg.idem)
    => /\ ~wg.opCalled
       /\ ~wg.sinkWrote
       /\ (wpc = "idle" => wret = Ok(0))

C5_Witness ==
    /\ wcall = "finish" /\ wg.idem /\ wpc = "idle" /\ wret = Ok(0)
    /\ opKind = "Encoder" /\ Len(sink) > 2

\* ------------------------------------------------------ Reader properties
IsPrefix(a, b) == Len(a) <= Len(b) /\ a = Take(b, Len(a))

\* The payloads of all the frames of the source, in order.
Expected == Payload(0, SumLens(shape.lens, Len(shape.lens)))

\* The payload of the first frame and the position just after that frame.
FirstPayload == Payload(0, shape.lens[1])

FirstFrameEnd == Len(Frame(FirstPayload))

\* The last read returned r.
Returned(r) == rpc = "idle" /\ rret = r

\* The last read failed with an error that is not the source's.
Failed == rpc = "idle" /\ rret.tag = "Err" /\ rret.err \notin SourceErrs

\* C6: reads with destination buffers of any positive size deliver exactly
\* the whole payload of a source of complete frames and leave the source at
\* its end; no read loses data or fails, also when a step has consumed all
\* the input while output was still held back.
C6_SmallReadsDeliverAll ==
    (shape.tail = "none" /\ ~single_frame)
    => /\ IsPrefix(delivered, Expected)
       /\ ~Failed
       /\ Returned(Ok(0)) => (delivered = Expected /\ pos = Len(source))

\* C7: with single_frame off, k >= 1 complete frames back to back yield
\* their payloads in order and then a clean end-of-stream; the operation is
\* re-initialised before the first input of each later frame, and finished
\* is reported only at the source's EOF.
C7_ConcatenatedFrames ==
    (shape.tail = "none" /\ ~single_frame)
    => /\ IsPrefix(delivered, Expected)
       /\ ~rg.misfed
       /\ finished => (pos = Len(source) /\ delivered = Expected)
       /\ ~Failed

\* C8: in single_frame mode, when bytes follow the first frame, reading to
\* the end yields the payload of the first frame only, no read fails, and
\* nothing after that frame is consumed or given to the operation.
C8_SingleFrameStops ==
    (single_frame /\ Len(source) > FirstFrameEnd)
    => /\ IsPrefix(delivered, FirstPayload)
       /\ pos <= FirstFrameEnd
       /\ ~rg.lateCall
       /\ ~Failed
       /\ Returned(Ok(0)) => (delivered = FirstPayload /\ pos = FirstFrameEnd)

C10_FinishedIsFinal ==
    /\ [](~rg.lateCall)
    /\ [][finished => /\ finished'
                      /\ pos' = pos
                      /\ rpc = "idle" => Returned(Ok(0))']_vars

\* C11: a read returns the source's WouldBlock only from an iteration that
\* changes nothing: no byte of this call is delivered with it, and the
\* position in the source, the bytes the source has buffered and the
\* operation's state are those a later read starts from.  Bytes change
\* hands only with a return of Ok(n), n being their number, and what has
\* been delivered is always a prefix of the payload: nothing is lost or
\* repeated across blocked reads.
C11_WouldBlockLosesNothing ==
    /\ [](IsPrefix(delivered, Expected))
    /\ [][(rpc = "loop" /\ rpc' = "idle" /\ rret' = Err("WouldBlock"))
            => UNCHANGED <<delivered, pos, avail, eng, finished,
                           finished_frame>>]_vars
    /\ [][delivered' # delivered
            => /\ rpc' = "idle"
               /\ rret' = Ok(Len(delivered') - Len(delivered))
               /\ delivered = Take(delivered', Len(delivered))]_vars

\* A read is blocked after bytes were delivered, and more are to come.
C11_Witness ==
    /\ Returned(Err("WouldBlock"))
    /\ delivered # <<>>
    /\ delivered # Expected
    /\ pos < Len(source)

\* C12: an Interrupted error of the source is retried inside read: no read
\* returns Interrupted to its caller.
C12_InterruptedRetried == ~Returned(Err("Interrupted"))

\* C13: no call of the Writer returns Interrupted: the drain loop goes
\* round again.  Any other failure of a sink write ends the running write,
\* flush, finish or write_skippable_frame with that error and touches
\* nothing; and whenever the sink takes bytes, they are the next n bytes of
\* buffer[offset..] and offset moves by n, so a later call resumes at the
\* first byte the sink has not accepted.
C13_SinkErrorsWhileDraining ==
    /\ [](~(wpc = "idle" /\ wret = Err("Interrupted")))
    /\ [][(wpc \in DrainPcs /\ offset < Len(buffer) /\ wpc' = "idle")
            => /\ wret' \in {Err(e) : e \in SinkErrs \cup {"WriteZero"}}
               /\ UNCHANGED <<sink, offset, buffer, eng, finished,
                              produced>>]_vars
    /\ [][sink' # sink
            => \E n \in 1..(Len(buffer) - offset) :
                  /\ sink' = sink \o SubSeq(buffer, offset + 1, offset + n)
                  /\ offset' = offset + n
                  /\ buffer' = buffer]_vars

\* A call was aborted by the sink's error after the sink had accepted a
\* part of the pending bytes.
C13_Witness ==
    /\ wpc = "idle"
    /\ wret = Err("Other")
    /\ 0 < offset
    /\ offset < Len(buffer)
    /\ sink # <<>>

\* C14: a call returns WriteZero only from a drain with bytes pending, and
\* that return leaves offset, the pending bytes and the sink as they were;
\* a drain with bytes pending never ends its call with Ok.
C14_WriteZero ==
    /\ [][(wpc # "idle" /\ wpc' = "idle" /\ wret' = Err("WriteZero"))
            => /\ wpc \in DrainPcs
               /\ offset < Len(buffer)
               /\ UNCHANGED <<sink, offset, buffer>>]_vars
    /\ [][(wpc \in DrainPcs /\ offset < Len(buffer) /\ wpc' = "idle")
            => wret'.tag = "Err"]_vars

\* A call failed with WriteZero after the sink had accepted a part.
C14_Witness ==
    /\ wpc = "idle"
    /\ wret = Err("WriteZero")
    /\ 0 < offset
    /\ offset < Len(buffer)

\* C15: a payload encoded by an encoder Writer (writes, then finish) or
\* by an encoder Reader and then pulled through a decoder Reader comes back
\* as it went in: no stage fails, the decoder delivers a prefix of the
\* payload at every moment and the whole payload by its end-of-stream.
C15_RoundTrip ==
    /\ CycleWriting => wret.tag # "Err"
    /\ CycleReading => rret.tag # "Err"
    /\ CycleDecoding =>
          /\ rret.tag # "Err"
          /\ IsPrefix(delivered, Expected)
          /\ Returned(Ok(0)) => delivered = Expected

\* C16: the drop of an AutoFinishEncoder calls finish on the encoder once
\* and then the callback once, with the result finish returned; while the
\* wrapper is alive neither has happened; with the callback of
\* auto_finish the drop panics exactly when that result is an error.
C16_DropFinishesOnce ==
    /\ auto.finishes <= 1
    /\ auto.calls <= 1
    /\ auto.encoder = "Some" => (auto.finishes = 0 /\ auto.calls = 0)
    /\ auto.encoder = "None" => auto.finishes = 1
    /\ auto.on_finish = "None" <=> auto.calls = 1
    /\ auto.calls = 1 =>
          (wpc = "idle" /\ wcall = "finish" /\ auto.arg = wret)
    /\ auto.panicked <=>
          (auto.cb = "unwrap" /\ auto.calls = 1 /\ auto.arg.tag = "Err")

\* A wrapper made by auto_finish was dropped after a write, finish failed
\* with bytes of the frame still pending, and the drop panicked.
C16_Witness ==
    /\ auto.panicked
    /\ auto.finishes = 1
    /\ nIn > 0
    /\ offset < Len(buffer)

\* C17: once try_finish has been called on an Encoder and has failed, a
\* write on the encoder it handed back panics: the call never enters
\* Writer::write.
C17_WritePanicsAfterTryFinish ==
    [][(wpc = "idle" /\ wcall = "finish" /\ wret.tag = "Err")
        => wpc' # "write"]_vars

\* The bytes written so far to a Writer over a Decoder end inside a frame.
InsideFrame ==
    /\ nIn > 0
    /\ \A i \in 0..Len(shape.lens) : nIn # Len(Frames(shape.lens, i))

C19_DecoderWriterDeliversAll ==
    (/\ shape.tail = "none"
     /\ wpc = "idle"
     /\ wg.phase \in {"writing", "finishing"})
    => /\ (wcall = "write" \/ (wcall = "finish" /\ nIn = Len(source)))
            => (wret.tag = "Err" => wret.err \in SinkErrs \cup {"WriteZero"})
       /\ (wcall = "finish" /\ nIn = Len(source) /\ wret = Ok(0))
            => sink = Expected

\* C20: when the first byte of a skippable frame is staged by an encoder
\* Writer, no regular frame is open: whatever writes, finishes and
\* skippable frames came before, the engine has closed the frame the
\* writes went into and holds nothing of it.
C20_SkippableBetweenFrames ==
    (opKind = "Encoder" /\ wpc = "skip_drain")
    => (eng.stage = "init" /\ eng.pend = <<>>)

\* --------------------------------------------- skippable-frame properties
\* C21: whenever read_skippable_frame returns an error because the next
\* frame is not skippable, the destination is too small, or the source
\* ends inside the header or the content, the source stands where it stood
\* when the call began.
C21_ErrorRestoresPosition ==
    (/\ skip.pc = "idle"
     /\ skip.ret.tag = "Err"
     /\ skip.cause \in {"Unsupported frame parameter",
                        "Destination buffer is too small",
                        "failed to fill whole buffer"})
        => pos = skip.start

\* ------------------------------------------- properties of later claims
\* C22: when the engine rejects its input, the read in which run failed
\* returns the engine's error, of kind Other, and reports no decoded byte
\* (what was delivered and consumed before stays as it was); a source
\* that holds a byte no frame begins with is never read to a clean end
\* and fails with no other error than that one.
C22_EngineErrorPassedOn ==
    /\ [][(rpc = "loop" /\ rret'.err = "Other")
             => /\ rret' = Err("Other")
                /\ rpc' = "idle"
                /\ delivered' = delivered
                /\ pos' = pos
                /\ source[pos + 1] = GARBAGE]_vars
    /\ []((shape.tail = "byte" /\ ~single_frame) => ~Returned(Ok(0)))
    /\ []((shape.tail = "byte" /\ ~single_frame /\ Failed)
             => rret = Err("Other"))

C22_Witness ==
    /\ Returned(Err("Other"))
    /\ shape.tail = "byte"
    /\ delivered # <<>>
    /\ source[pos + 1] = GARBAGE

\* C23: with NoOp, a Writer whose finish returned Ok has put exactly the
\* bytes its writes accepted into the sink, and a Reader delivers exactly
\* the bytes of its source up to a clean end; each run of NoOp moves both
\* cursors by the same amount, the smaller of what the window held and
\* what the destination takes, and returns 0.
C23_NoOpCopies ==
    /\ []((NoOpWriting /\ Completed("finish")) => sink = Payload(0, nIn))
    /\ []((NoOpWriting /\ wpc = "idle") => opIn = nIn)
    /\ [](NoOpReading =>
             /\ delivered = Take(source, pos)
             /\ Returned(Ok(0)) => delivered = source
             /\ ~Failed)
    /\ [][(NoOpReading /\ pos' # pos) =>
             /\ pos' - pos = Len(delivered') - Len(delivered)
             /\ avail' = 0 \/ pos' - pos = dstLen
             /\ finished_frame'
             /\ rret' = Ok(pos' - pos)]_vars
    /\ [][(NoOpWriting /\ opIn' # opIn) =>
             /\ opIn' - opIn = Len(produced') - Len(produced)
             /\ opIn' - opIn = Min(Len(wbuf), BufCap)
             /\ finished_frame']_vars

C23_Witness ==
    /\ NoOpWriting
    /\ Completed("finish")
    /\ nIn = MaxIn
    /\ sink = Payload(0, MaxIn)

\* C24: a finish of an encoder Writer that was given no byte runs the
\* operation's finish to its end and leaves one frame of no payload in the
\* sink; a decoder Reader over that frame delivers no byte, does not fail,
\* and ends with Ok(0).
C24_EmptyFrame ==
    /\ (CycleWriting /\ nIn = 0 /\ wpc = "idle" /\ wcall = "finish")
          => /\ wret = Ok(0)
             /\ finished
             /\ eng = FreshEngine
             /\ sink = Frame(<<>>)
    /\ (CycleDecoding /\ shape.lens = <<0>>)
          => /\ source = Frame(<<>>)
             /\ delivered = <<>>
             /\ rret.tag # "Err"
             /\ rpc = "idle" => rret \in {NoRet, Ok(0)}
             /\ Returned(Ok(0)) => (finished /\ pos = Len(source))

C24_Witness ==
    /\ CycleDecoding
    /\ shape.lens = <<0>>
    /\ Returned(Ok(0))
    /\ source = Frame(<<>>)
    /\ pos = Len(source)

\* C25: whenever finish returns Ok, the operation has no frame open and
\* holds nothing (every byte a write accepted was followed by an
\* op.finish that returned 0) and the staging buffer is drained; this
\* also when bytes were written after an earlier finish returned Ok.
C25_FinishClosesEveryFrame ==
    (wpc = "idle" /\ wcall = "finish" /\ wret = Ok(0))
        => /\ eng.stage = "init"
           /\ eng.pend = <<>>
           /\ offset = Len(buffer)
           /\ opIn = nIn

\* A step of Writer::write that runs the operation (after a reinit when
\* finished_frame is set).
RunsOperation == wpc = "write" /\ offset = Len(buffer)

\* The run of such a step over a Decoder returned 0: it ended a frame it
\* had open, or was fed, and emitted all of it.
RunReturnedZero ==
    /\ eng'.stage = "init"
    /\ eng'.pend = <<>>
    /\ opIn' > opIn \/ (~finished_frame /\ eng.stage = "flush")

\* C26: finished_frame changes in no step but one that runs the
\* operation; after a run that did not fail it is set exactly when the run
\* returned 0; it is set only when input was run and the operation stands
\* between frames; an I/O error leaves it as it was; and the reinit that
\* clears it is made only before a run on new input.
C26_FrameFlag ==
    /\ [][finished_frame' # finished_frame => RunsOperation]_vars
    /\ [][(RunsOperation /\ wret'.tag # "Err")
             => (finished_frame' <=> RunReturnedZero)]_vars
    /\ [](finished_frame => (opIn > 0 /\ eng = FreshEngine))
    /\ [][(wpc' = "idle" /\ wret'.tag = "Err"
           /\ wret'.err \in SinkErrs \cup {"WriteZero"})
             => finished_frame' = finished_frame]_vars
    /\ [][(RunsOperation /\ finished_frame) => wbuf # <<>>]_vars

\* Whether out is valid output of operation k for the payload s: for an
\* Encoder one frame holding s, or that frame and an empty one (a flush
\* has emitted the end of a frame that a failed finish had closed, and the
\* finish that followed found the engine between frames).
ValidOutput(k, s, out) ==
    IF k = "Encoder"
    THEN out \in {Frame(s), Frame(s) \o Frame(<<>>)}
    ELSE out = s

\* A step of Writer::flush that calls op.flush.
FlushesOperation == wpc = "flush" /\ offset = Len(buffer) /\ ~flush_finished

\* A step of Writer::flush that calls flush on the sink.
FlushesSink == wpc = "flush" /\ offset = Len(buffer) /\ flush_finished

\* C27: inside flush the operation and the sink's flush are reached only
\* with the staging buffer drained; op.flush is called again until it
\* returns 0 and not at all when the writer is finished; the sink is
\* flushed once, by the step that ends the call, after the last staged
\* byte was written; when flush returns Ok nothing is staged and, unless
\* the writer was finished, the operation holds nothing; and writes and
\* flushes followed by finish leave valid output for what was written.
C27_FlushOrder ==
    /\ [][(wpc = "flush" /\ (eng' # eng \/ produced' # produced))
             => (FlushesOperation /\ ~finished)]_vars
    /\ [][(FlushesOperation /\ wpc' = "flush")
             => (flush_finished' <=> eng'.pend = <<>>)]_vars
    /\ [][FlushesSink
             => (wpc' = "idle" /\ sink' = sink /\ produced' = produced
                 /\ eng' = eng)]_vars
    /\ [][(wpc = "flush" /\ wpc' = "idle" /\ wret'.tag = "Ok")
             => (FlushesSink /\ (finished \/ eng.pend = <<>>))]_vars
    /\ []((wpc = "idle" /\ wcall = "flush" /\ wret = Ok(0))
             => offset = Len(buffer))
    /\ []((wg.phase = "closing" /\ wpc = "idle" /\ wcall = "finish"
           /\ wret = Ok(0))
             => ValidOutput(opKind, Payload(0, nIn), sink))

\* A flush of an encoder Writer returned Ok after op.flush was called more
\* than once: what the engine held exceeded the staging buffer.
C27_Witness ==
    /\ wpc = "idle" /\ wcall = "flush" /\ wret = Ok(0)
    /\ opKind = "Encoder"
    /\ wg.phase = "flushing"
    /\ Len(produced) > BufCap
    /\ sink = produced
    /\ eng.pend = <<>>
    /\ eng.stage = "open"
    /\ Len(buffer) < BufCap
    /\ buffer # <<>>

\* C28: finish goes on draining the buffer and calling the operation's
\* finish until that returns 0: a remaining that is not 0 ends the call
\* neither with a panic nor with Ok, and finish returns Ok only once the
\* frame is closed and every byte of it is in the sink.
C28_FinishRepeatsUntilZero ==
    /\ old.panic # "Need to flush, but I'm lazy."
    /\ (wcall = "finish" /\ wpc = "idle" /\ wret.tag = "Ok")
          => (eng = FreshEngine /\ sink = produced)

\* What a Reader over operation k delivers for the whole of a source src
\* of plain bytes.
WholeOutput(k, src) == IF k = "Encoder" THEN Frame(src) ELSE src

\* The running read returns Ok in this step.
ReadReturnsOk == rpc = "loop" /\ rpc' = "idle" /\ rret'.tag = "Ok"

\* C29: a read into a buffer that is not empty returns Ok(0) only when the
\* reader is finished, that is at the end of the source after op.finish
\* returned 0 with nothing left in the operation, or past the end of the
\* single frame; a read that was not finished on entry returns Ok(0) only
\* from an op.finish at EOF that returned 0 and wrote nothing, and returns
\* Ok(n) only for the n > 0 bytes its last step wrote; an op.finish at EOF
\* that leaves bytes in the operation leaves the reader unfinished, so
\* that the next read calls op.finish again, and once an encoding reader
\* is finished the whole frame has been delivered.
C29_ZeroOnlyAtEnd ==
    /\ [](dstLen > 0 /\ rpc = "idle" /\ rret = Ok(0)
            => /\ finished
               /\ single_frame
                  \/ (pos = Len(source) /\ avail = 0 /\ eng = FreshEngine))
    /\ [][ReadReturnsOk /\ rret'.n = 0
            => /\ pos = Len(source) /\ avail = 0
               /\ finished'
               /\ eng' = FreshEngine \/ (single_frame /\ finished)]_vars
    /\ [][ReadReturnsOk /\ rret'.n > 0
            => delivered' = delivered \o SubSeq(delivered',
                                                Len(delivered) + 1,
                                                Len(delivered'))
               /\ Len(delivered') = Len(delivered) + rret'.n
               /\ rret'.n <= dstLen]_vars
    /\ [][rpc = "loop" /\ rpc' = "loop" => delivered' = delivered]_vars
    /\ [][rpc = "loop" /\ pos = Len(source) /\ avail = 0
             /\ eng'.pend # <<>>
            => ~finished' \/ finished]_vars
    /\ [](~finished /\ rpc = "idle" => ENABLED (CallRead /\ rpc' = "loop"))
    /\ [](finished /\ shape.tail = "plain"
            => delivered = WholeOutput(opKind, source))

\* An encoding reader whose frame took more than one read, each of them
\* ended by an op.finish, has returned Ok(0).
C29_Witness ==
    /\ opKind = "Encoder"
    /\ rpc = "idle"
    /\ rret = Ok(0)
    /\ dstLen > 0
    /\ finished
    /\ source # <<>>
    /\ delivered = Frame(source)

\* The running write returns Ok in this step.
WriteReturnsOk ==
    wpc = "write" /\ wcall = "write" /\ wpc' = "idle" /\ wret'.tag = "Ok"

\* C30: a write of a buf that is not empty never returns Ok(0); a write
\* returns Ok from a run made on a drained buffer, and the number it
\* returns is the number of bytes that run consumed; the runs of the call
\* before that one consumed nothing, so that at every moment the bytes
\* reported as written are the bytes the operation has consumed; a write
\* of an empty buf returns Ok(0) from the first run of the call.
C30_WriteReportsWhatRunConsumed ==
    /\ [][WriteReturnsOk
            => /\ offset = Len(buffer)
               /\ wret'.n = opIn' - opIn
               /\ nIn' = nIn + wret'.n
               /\ wret'.n <= Len(wbuf)
               /\ wbuf # <<>> => wret'.n > 0
               /\ wbuf = <<>> => wret'.n = 0 /\ ~wg.opCalled]_vars
    /\ [][wpc = "write" /\ ~WriteReturnsOk
            => opIn' = opIn /\ nIn' = nIn]_vars
    /\ [](opIn = nIn)

\* A write of a buf that is not empty has made a run that consumed
\* nothing, and goes on.
C30_Witness ==
    /\ wpc = "write"
    /\ wbuf # <<>>
    /\ wg.opCalled
    /\ offset = Len(buffer)

\* ------------------------------------------- properties of the last claims
\* C31: offset never exceeds the length of the staging buffer, at a return
\* or anywhere else; and whenever the buffer is handed over to be written
\* from its start (to run, flush or finish, or to the skippable-frame
\* writer), buffer[offset..] is empty.
C31_PendingNeverOverwritten ==
    /\ [](offset <= Len(buffer))
    /\ [](wpc = "skip_emit" => offset = Len(buffer))
    /\ [][(buffer' # buffer \/ offset' < offset)
            => offset = Len(buffer)]_vars

\* C32: the source has been told to consume exactly the bytes the
\* operation's steps consumed, after every step; its position never goes
\* back, each step is given the bytes that follow the position, and what
\* a step left of its window is still buffered by the source, within it.
C32_ConsumesWhatStepTook ==
    /\ [](pos = opIn)
    /\ [](avail >= 0 /\ pos + avail <= Len(source))
    /\ [][pos' >= pos /\ opIn' >= opIn]_vars
    /\ [][opIn' # opIn
            => /\ rpc = "loop"
               /\ pos' - pos = opIn' - opIn
               /\ avail' + (pos' - pos) >= avail
               /\ avail > 0 => avail' + (pos' - pos) = avail]_vars
    /\ [][(rpc = "loop" /\ opIn' = opIn) => avail' >= avail]_vars

\* A step took part of its window: the rest is still with the source.
C32_Witness ==
    /\ opKind = "Decoder"
    /\ pos > 0
    /\ avail > 0
    /\ opIn = pos
    /\ delivered # <<>>

\* C33: skip_frame, called at the start of a frame of the source, returns
\* Ok and leaves the source at the end of that frame, which is the start
\* of the next one, whatever the types of its blocks.
C33_SkipsWholeFrame ==
    skip.pc = "skipped"
    => /\ skip.ret.tag = "Ok"
       /\ \E i \in 1..Len(shape.lens) :
             /\ skip.start = SumLens(shape.lens, i - 1)
             /\ pos = SumLens(shape.lens, i)

\* The running flush is about to call op.flush.
AtFlushStep == wpc = "flush" /\ ~flush_finished /\ offset = Len(buffer)

\* C34: a flush of a Writer over a Decoder returns; when it returns Ok the
\* decoder holds nothing and the sink holds everything the input consumed
\* so far decodes to; each op.flush of the call gives the decoder no
\* input, and the call goes round again exactly when that step filled the
\* staging buffer.
C34_DecoderFlushDelivers ==
    /\ (wpc = "flush") ~> (wpc = "idle")
    /\ [](wpc = "idle" /\ wcall = "flush" /\ wret = Ok(0)
            => /\ eng.pend = <<>>
               /\ offset = Len(buffer)
               /\ sink = Unstored(Take(source, opIn)))
    /\ [][AtFlushStep
            => /\ opIn' = opIn
               /\ offset' = 0
               /\ wpc' = "flush"
               /\ flush_finished' = (Len(buffer') < BufCap)
               /\ sink \o buffer' = Unstored(Take(source, opIn))
                  \/ Len(buffer') = BufCap]_vars

\* A flush of a decoder that held the staging buffer's fill and more has
\* gone round twice and returned Ok.
C34_Witness ==
    /\ wpc = "idle"
    /\ wcall = "flush"
    /\ wret = Ok(0)
    /\ Len(sink) = 2 * BufCap
    /\ opIn = 2 * BufCap + 1

\* C35: a running read never reaches an iteration of its loop that can
\* only leave everything as it is (no input consumed, no output written,
\* no return), whatever the length of its buffer: each iteration consumes
\* or delivers a byte of a finite stream or ends the call, so the call
\* returns after finitely many steps.
C35_EveryIterationAdvances ==
    rpc = "loop" => ENABLED <<ReadRun \/ ReadEof>>_vars

\* C36: with single_frame set, once a step of the stream::Decoder has
\* ended the first frame, no byte is read from the underlying reader any
\* more, a read that has returned Ok leaves the state Completed, and the
\* caller has received nothing beyond the first frame's content.
C36_SingleFrameStops ==
    /\ [][(single_frame /\ old.ended) => pos' = pos]_vars
    /\ []((single_frame /\ old.ended /\ rpc = "idle" /\ rret.tag = "Ok")
            => old.state = "Completed")
    /\ []((single_frame /\ old.ended)
            => Len(delivered) <= shape.lens[1])

\* C37: a read of the stream::Decoder on a source that holds no byte
\* returns: the running call does not stay in its loop for ever.
C37_ReadAtEofReturns ==
    (rpc = "loop" /\ source = <<>>) ~> (rpc = "idle")

\* Place of an EncoderState in the order Accepting, Finished, StreamEnd.
StateRank(st) ==
    CASE st = "Accepting" -> 0
      [] st = "Finished" -> 1
      [] st = "StreamEnd" -> 2

\* C38: the state of the stream::Encoder only moves forward, Accepting,
\* Finished, StreamEnd; once it is StreamEnd the stream is not ended again
\* and nothing more is produced, whatever try_finish calls follow a
\* WouldBlock; the sink holds at every moment the first bytes produced, in
\* their order and each once, so that what was pending before the footer
\* precedes it; and a try_finish that returns Ok has every byte of the
\* closed frame in the sink.
C38_EndsStreamOnce ==
    /\ [][StateRank(old'.state) >= StateRank(old.state)]_vars
    /\ [][old.state = "StreamEnd" => (eng' = eng /\ produced' = produced)]_vars
    /\ [](Len(sink) <= Len(produced) /\ sink = Take(produced, Len(sink)))
    /\ []((wcall = "finish" /\ wpc = "idle" /\ wret.tag = "Ok")
            => (old.state = "StreamEnd" /\ sink = produced
                /\ produced # <<>> /\ produced[Len(produced)] = LASTBLOCK))

\* A try_finish that follows one the sink blocked after the stream had
\* been ended has not ended it again, has written the rest of the footer
\* and is about to return Ok.
C38_Witness ==
    /\ wcall = "finish" /\ wpc = "last_drain"
    /\ wg.resumed /\ ~wg.opCalled /\ wg.sinkWrote
    /\ old.state = "StreamEnd"
    /\ offset = Len(buffer) /\ sink = produced
    /\ Len(produced) > 2

====
